---- MODULE Spec2Model ----
(***************************************************************************)
(* NotebookViking: the NotebookLM storage backend of OpenViking.           *)
(*                                                                         *)
(*   openviking/utils/config/notebooklm_config.py   NotebookLMConfig       *)
(*   openviking/storage/notebooklm_backend.py       NotebookLMBackend      *)
(*                                                                         *)
(* Representation.  A Python str is a sequence of one-character strings,   *)
(* so that split, join, slicing, str.format and the substring test are     *)
(* computed the way Python computes them.  None is the one-element         *)
(* sequence <<"None">>, whose element is not a character, so it differs    *)
(* from every str.  A dict with str keys is a function whose domain is a   *)
(* set of TLA+ strings (field names are only ever compared with each       *)
(* other); notebook_mapping is keyed by collection names, which are str    *)
(* values of the program and therefore character sequences.                *)
(***************************************************************************)
EXTENDS Integers, Sequences, FiniteSets, TLC

VARIABLES
    config,         \* NotebookLMConfig: notebook_mapping, default_notebook_id,
                    \*   tier_config, source_naming_pattern
    source_cache,   \* NotebookLMBackend._source_cache: collection -> ordered dict
    available,      \* NotebookLMBackend._available (the pipx venv exists)
    ext_sources,    \* the sources held by the external notebook service
    source_count,   \* how many source ids the external service has issued
    uuid_count,     \* how many uuid4 values the process has drawn
    tasks,          \* the update calls in flight: for each caller the await it
                    \*   has reached and the local variables of the coroutine
    last            \* the call that produced this state: arguments and outcome

vars == <<config, source_cache, available, ext_sources, source_count, uuid_count, tasks, last>>

---------------------------------------------------------------------------
(* Python values *)

None == <<"None">>

\* {}
EmptyDict == [k \in {} |-> None]

Truthy(v) == v # None /\ v # <<>>

\* dict.get(key, default)
Get(d, k, default) == IF k \in DOMAIN d THEN d[k] ELSE default

\* {**a, **b}
Merge(a, b) == [k \in DOMAIN a \cup DOMAIN b |-> IF k \in DOMAIN b THEN b[k] ELSE a[k]]

Min(S) == CHOOSE m \in S : \A n \in S : m <= n

\* sub in s
Contains(s, sub) == \E i \in 0..(Len(s) - Len(sub)) : SubSeq(s, i + 1, i + Len(sub)) = sub

\* s[:n]
Take(s, n) == SubSeq(s, 1, IF Len(s) < n THEN Len(s) ELSE n)

\* s.split(sep) for a one-character separator
RECURSIVE Split(_, _)
Split(s, sep) ==
    LET hits == {i \in 1..Len(s) : s[i] = sep} IN
    IF hits = {} THEN <<s>>
    ELSE LET i == Min(hits) IN <<SubSeq(s, 1, i - 1)>> \o Split(SubSeq(s, i + 1, Len(s)), sep)

\* sep.join(parts)
RECURSIVE Join(_, _)
Join(parts, sep) ==
    IF Len(parts) = 0 THEN <<>>
    ELSE IF Len(parts) = 1 THEN parts[1]
    ELSE parts[1] \o <<sep>> \o Join(Tail(parts), sep)

---------------------------------------------------------------------------
(* String literals of the program *)

TierL0 == <<"L", "0">>
TierL1 == <<"L", "1">>
TierL2 == <<"L", "2">>
StrResource == <<"r", "e", "s", "o", "u", "r", "c", "e">>
StrMemory == <<"m", "e", "m", "o", "r", "y">>
StrActive == <<"A", "C", "T", "I", "V", "E">>
StrArchived == <<"A", "R", "C", "H", "I", "V", "E", "D">>
StrViking == <<"v", "i", "k", "i", "n", "g", ":", "/", "/">>
TierPlaceholder == <<"{", "t", "i", "e", "r", "}">>

KwTier == <<"t", "i", "e", "r">>
KwContextType == <<"c", "o", "n", "t", "e", "x", "t", "_", "t", "y", "p", "e">>
KwUriHash == <<"u", "r", "i", "_", "h", "a", "s", "h">>
KwTitle == <<"t", "i", "t", "l", "e">>
KwStatus == <<"s", "t", "a", "t", "u", "s">>

\* NotebookLMConfig.source_naming_pattern, the field's default
DefaultPattern ==
    <<"{", "t", "i", "e", "r", "}", "-",
      "{", "c", "o", "n", "t", "e", "x", "t", "_", "t", "y", "p", "e", "}", "-",
      "{", "u", "r", "i", "_", "h", "a", "s", "h", "}", "-",
      "{", "t", "i", "t", "l", "e", "}", "-", "A", "C", "T", "I", "V", "E">>

\* NotebookLMConfig.tier_config, the field's default
DefaultTierConfig == [L0 |-> 100, L1 |-> 2000, L2 |-> 0]

\* validate_config: required_tiers
required_tiers == {"L0", "L1", "L2"}

\* _build_source_name: title[:50]
TitleLimit == 50

HexDigits == <<"0", "1", "2", "3", "4", "5", "6", "7", "8", "9", "a", "b", "c", "d", "e", "f">>

---------------------------------------------------------------------------
(* NotebookLMConfig *)

\* validate_config that forgets the last required tier
validate_config_two_tiers(cfg) ==
    IF DOMAIN cfg.notebook_mapping = {} /\ ~Truthy(cfg.default_notebook_id)
    THEN [ok |-> FALSE, error |-> "notebook_mapping or default_notebook_id", missing |-> {}]
    ELSE IF ~({"L0", "L1"} \subseteq DOMAIN cfg.tier_config)
    THEN [ok |-> FALSE, error |-> "tier_config missing required tiers",
          missing |-> {"L0", "L1"} \ DOMAIN cfg.tier_config]
    ELSE IF ~Contains(cfg.source_naming_pattern, TierPlaceholder)
    THEN [ok |-> FALSE, error |-> "source_naming_pattern must include {tier}", missing |-> {}]
    ELSE [ok |-> TRUE, error |-> "", missing |-> {}]

\* validate_config: the first requirement that fails raises ValueError; the
\* message of the tier error prints the set of missing tiers.
validate_config(cfg) ==
    IF DOMAIN cfg.notebook_mapping = {} /\ ~Truthy(cfg.default_notebook_id)
    THEN [ok |-> FALSE, error |-> "notebook_mapping or default_notebook_id", missing |-> {}]
    ELSE IF ~(required_tiers \subseteq DOMAIN cfg.tier_config)
    THEN [ok |-> FALSE, error |-> "tier_config missing required tiers",
          missing |-> required_tiers \ DOMAIN cfg.tier_config]
    ELSE IF ~Contains(cfg.source_naming_pattern, TierPlaceholder)
    THEN [ok |-> FALSE, error |-> "source_naming_pattern must include {tier}", missing |-> {}]
    ELSE [ok |-> TRUE, error |-> "", missing |-> {}]

\* get_notebook_id that consults the fallback before the mapping
get_notebook_id_default_first(cfg, collection) ==
    IF Truthy(cfg.default_notebook_id)
    THEN [raised |-> FALSE, ret |-> cfg.default_notebook_id, named |-> None]
    ELSE IF collection \in DOMAIN cfg.notebook_mapping
    THEN [raised |-> FALSE, ret |-> cfg.notebook_mapping[collection], named |-> None]
    ELSE [raised |-> TRUE, ret |-> None, named |-> collection]

\* get_notebook_id: ret is the notebook id; on ValueError, named is the
\* collection name the message quotes.
get_notebook_id(cfg, collection) ==
    IF collection \in DOMAIN cfg.notebook_mapping
    THEN [raised |-> FALSE, ret |-> cfg.notebook_mapping[collection], named |-> None]
    ELSE IF Truthy(cfg.default_notebook_id)
    THEN [raised |-> FALSE, ret |-> cfg.default_notebook_id, named |-> None]
    ELSE [raised |-> TRUE, ret |-> None, named |-> collection]

\* str.format(**kw) on a pattern of literal text and {name} fields, from
\* position i on: the text up to the next brace is copied and the field is
\* replaced by kw[name]; an unknown name raises KeyError and an unmatched
\* brace raises ValueError (ok = FALSE).
RECURSIVE FormatFrom(_, _, _)
FormatFrom(p, i, kw) ==
    LET braces == {j \in i..Len(p) : p[j] = "{" \/ p[j] = "}"} IN
    IF braces = {} THEN [ok |-> TRUE, s |-> SubSeq(p, i, Len(p))]
    ELSE
    LET open == Min(braces)
        closing == {j \in braces : j > open /\ p[j] = "}"}
    IN
    IF p[open] = "}" \/ closing = {} THEN [ok |-> FALSE, s |-> <<>>]
    ELSE
    LET close == Min(closing)
        name == SubSeq(p, open + 1, close - 1)
    IN
    IF name \notin DOMAIN kw THEN [ok |-> FALSE, s |-> <<>>]
    ELSE
    LET rest == FormatFrom(p, close + 1, kw) IN
    IF rest.ok
    THEN [ok |-> TRUE, s |-> SubSeq(p, i, open - 1) \o kw[name] \o rest.s]
    ELSE [ok |-> FALSE, s |-> <<>>]

format_source_name(cfg, tier, context_type, uri_hash, title, status) ==
    FormatFrom(cfg.source_naming_pattern, 1,
               (KwTier :> tier) @@ (KwContextType :> context_type) @@
               (KwUriHash :> uri_hash) @@ (KwTitle :> title) @@ (KwStatus :> status))

---------------------------------------------------------------------------
(* NotebookLMBackend: helper methods *)

Count(s, c) == Cardinality({i \in 1..Len(s) : s[i] = c})

\* _uri_hash: hashlib.sha256(uri.encode()).hexdigest()[:8].  SHA-256 is not
\* computed; the digest is a fixed function of the uri that yields eight
\* lower-case hexadecimal digits, which is all its callers depend on.
_uri_hash(uri) ==
    <<HexDigits[(Len(uri) % 16) + 1],
      HexDigits[(Count(uri, "/") % 16) + 1],
      HexDigits[(Count(uri, "a") % 16) + 1],
      HexDigits[(Count(uri, "-") % 16) + 1],
      HexDigits[((3 * Len(uri) + Count(uri, "b")) % 16) + 1],
      HexDigits[((5 * Len(uri) + Count(uri, "s")) % 16) + 1],
      HexDigits[((7 * Len(uri) + Count(uri, "1")) % 16) + 1],
      HexDigits[((11 * Len(uri) + Count(uri, "2")) % 16) + 1]>>

\* _build_source_name: the status argument of format_source_name is left to
\* its default "ACTIVE".
_build_source_name(cfg, uri, tier, context_type, title) ==
    LET uri_hash == _uri_hash(uri)
        parts == Split(uri, "/")
        t == IF title = None
             THEN (IF Contains(uri, <<"/">>) THEN parts[Len(parts)] ELSE uri)
             ELSE title
    IN format_source_name(cfg, tier, context_type, uri_hash, Take(t, TitleLimit), StrActive)

\* _parse_source_name that takes the fourth part alone as the title
_parse_source_name_fourth_part(source_name) ==
    LET parts == Split(source_name, "-") IN
    IF Len(parts) >= 5
    THEN [tier |-> parts[1],
          context_type |-> parts[2],
          uri_hash |-> parts[3],
          title |-> parts[4],
          status |-> parts[Len(parts)]]
    ELSE [raw |-> source_name]

_parse_source_name(source_name) ==
    LET parts == Split(source_name, "-") IN
    IF Len(parts) >= 5
    THEN [tier |-> parts[1],
          context_type |-> parts[2],
          uri_hash |-> parts[3],
          title |-> Join(SubSeq(parts, 4, Len(parts) - 1), "-"),
          status |-> parts[Len(parts)]]
    ELSE [raw |-> source_name]

---------------------------------------------------------------------------
(* NotebookLMBackend: state                                                *)
(*                                                                         *)
(* A Python dict keeps its keys in insertion order, and filter() and       *)
(* clear() walk the cache in that order, so the per-collection cache is a  *)
(* sequence of entries [key, rec].  The operations below are functions of  *)
(* a state record st = [cache, ext, sc, uc] (source_cache, ext_sources,    *)
(* source_count, uuid_count) so that update can run delete and insert one  *)
(* after the other.  Every operation reports the calls it made to the      *)
(* external service, each with the reply it got.                           *)

Keys(od) == {od[i].key : i \in 1..Len(od)}

\* od[k]
Lookup(od, k) == (CHOOSE i \in 1..Len(od) : od[i].key = k)

\* od[k] = r: an existing key keeps its position, a new key goes last
Put(od, k, r) ==
    IF k \in Keys(od)
    THEN [i \in 1..Len(od) |-> IF od[i].key = k THEN [key |-> k, rec |-> r] ELSE od[i]]
    ELSE Append(od, [key |-> k, rec |-> r])

\* od.pop(k, None)
RECURSIVE Pop(_, _)
Pop(od, k) ==
    IF od = <<>> THEN <<>>
    ELSE IF Head(od).key = k THEN Pop(Tail(od), k)
    ELSE <<Head(od)>> \o Pop(Tail(od), k)

\* self._source_cache.get(collection, {})
CacheOf(cache, collection) == IF collection \in DOMAIN cache THEN cache[collection] ELSE <<>>

\* a or b
Or(a, b) == IF Truthy(a) THEN a ELSE b

\* len(content.split()): the number of maximal runs of non-blank characters
WordCount(s) == Cardinality({i \in 1..Len(s) : s[i] # " " /\ (i = 1 \/ s[i - 1] = " ")})

\* str(uuid.uuid4()): the n-th value drawn; distinct draws give distinct values
Uuid(n) == <<HexDigits[(n % 16) + 1], HexDigits[(n \div 16) + 1], "-", "4">>

\* the id the external service gives to the n-th source it creates
SourceId(n) == <<"s", HexDigits[(n % 16) + 1]>>

\* the replies of the external service to add_text_source: a source handle
\* with an id, a handle without a usable id, or a failure (error status,
\* non-zero exit, timeout)
AddReplies == {"ok", "no_id", "error"}

\* the replies to delete_source: {"success": true} or anything else
DeleteReplies == {"ok", "fail"}

---------------------------------------------------------------------------
(* NotebookLMBackend: record operations *)

\* TierFor that sends a length equal to a threshold to the higher tier
TierFor_strict(cfg, content_len) ==
    IF content_len < cfg.tier_config["L0"] THEN TierL0
    ELSE IF content_len < cfg.tier_config["L1"] THEN TierL1
    ELSE TierL2

\* TierFor that looks at the L1 threshold before the L0 threshold
TierFor_l1_first(cfg, content_len) ==
    IF content_len <= cfg.tier_config["L1"] THEN TierL1
    ELSE IF content_len <= cfg.tier_config["L0"] THEN TierL0
    ELSE TierL2

\* insert, lines 438-445 with content_len already counted
TierFor(cfg, content_len) ==
    IF content_len <= cfg.tier_config["L0"] THEN TierL0
    ELSE IF content_len <= cfg.tier_config["L1"] THEN TierL1
    ELSE TierL2

\* get
RECURSIVE get(_, _, _)
get(st, collection, ids) ==
    IF ids = <<>> THEN <<>>
    ELSE LET od == CacheOf(st.cache, collection) IN
         (IF Head(ids) \in Keys(od) THEN <<od[Lookup(od, Head(ids))].rec>> ELSE <<>>)
            \o get(st, collection, Tail(ids))

\* exists
exists(st, collection, id) == id \in Keys(CacheOf(st.cache, collection))

\* InsertSource that caches only the fields it computed, without **data
InsertSource_without_data(st, notebook_id, collection, data, record_id, uri, content, context_type, tier, name, reply) ==
    IF ~name.ok THEN [st |-> st, raised |-> "KeyError", ret |-> None, calls |-> <<>>]
    ELSE
    LET call == [fn |-> "add_text_source", notebook_id |-> notebook_id, text |-> content,
                 title |-> name.s, reply |-> reply]
        new_id == SourceId(st.sc + 1)
        rec == [id |-> record_id,
                source_id |-> IF reply = "ok" THEN new_id ELSE None,
                uri |-> uri, source_name |-> name.s, tier |-> tier,
                context_type |-> context_type]
    IN
    IF reply = "error"
    THEN [st |-> st, raised |-> "RuntimeError", ret |-> None, calls |-> <<call>>]
    ELSE [st |-> [cache |-> (collection :> Put(CacheOf(st.cache, collection), record_id, rec))
                            @@ st.cache,
                  ext |-> (new_id :> [notebook_id |-> notebook_id, title |-> name.s,
                                      text |-> content, record_id |-> record_id]) @@ st.ext,
                  sc |-> st.sc + 1,
                  uc |-> st.uc],
          raised |-> "", ret |-> record_id, calls |-> <<call>>]

\* InsertSource that writes the cache entry before it looks at the reply
InsertSource_caching_before_reply(st, notebook_id, collection, data, record_id, uri, content, context_type, tier, name, reply) ==
    IF ~name.ok THEN [st |-> st, raised |-> "KeyError", ret |-> None, calls |-> <<>>]
    ELSE
    LET call == [fn |-> "add_text_source", notebook_id |-> notebook_id, text |-> content,
                 title |-> name.s, reply |-> reply]
        new_id == SourceId(st.sc + 1)
        rec == Merge([id |-> record_id,
                      source_id |-> IF reply = "ok" THEN new_id ELSE None,
                      uri |-> uri, source_name |-> name.s, tier |-> tier,
                      context_type |-> context_type],
                     data)
        cached == (collection :> Put(CacheOf(st.cache, collection), record_id, rec)) @@ st.cache
    IN
    IF reply = "error"
    THEN [st |-> [st EXCEPT !.cache = cached], raised |-> "RuntimeError", ret |-> None,
          calls |-> <<call>>]
    ELSE [st |-> [cache |-> cached,
                  ext |-> (new_id :> [notebook_id |-> notebook_id, title |-> name.s,
                                      text |-> content, record_id |-> record_id]) @@ st.ext,
                  sc |-> st.sc + 1,
                  uc |-> st.uc],
          raised |-> "", ret |-> record_id, calls |-> <<call>>]

\* insert, lines 455-488: the add_text_source call and the cache entry.
\* The service keeps the source under a new id; record_id notes, for the
\* claims, the record the source was added for.
\* name is the result of _build_source_name; a KeyError of str.format is
\* re-raised by the handler at line 492.
InsertSource(st, notebook_id, collection, data, record_id, uri, content, context_type, tier, name, reply) ==
    IF ~name.ok THEN [st |-> st, raised |-> "KeyError", ret |-> None, calls |-> <<>>]
    ELSE
    LET call == [fn |-> "add_text_source", notebook_id |-> notebook_id, text |-> content,
                 title |-> name.s, reply |-> reply]
        new_id == SourceId(st.sc + 1)
        rec == Merge([id |-> record_id,
                      source_id |-> IF reply = "ok" THEN new_id ELSE None,
                      uri |-> uri, source_name |-> name.s, tier |-> tier,
                      context_type |-> context_type],
                     data)
    IN
    IF reply = "error"
    THEN [st |-> st, raised |-> "RuntimeError", ret |-> None, calls |-> <<call>>]
    ELSE [st |-> [cache |-> (collection :> Put(CacheOf(st.cache, collection), record_id, rec))
                            @@ st.cache,
                  ext |-> (new_id :> [notebook_id |-> notebook_id, title |-> name.s,
                                      text |-> content, record_id |-> record_id]) @@ st.ext,
                  sc |-> st.sc + 1,
                  uc |-> st.uc],
          raised |-> "", ret |-> record_id, calls |-> <<call>>]

\* insert, lines 432-453: the fields taken from data, the tier and the name
InsertFields(st, cfg, notebook_id, collection, data, record_id, reply) ==
    LET uri == Get(data, "uri", StrViking \o collection \o <<"/">> \o record_id)
        content == Or(Or(Get(data, "content", None), Get(data, "text", None)),
                      Get(data, "abstract", <<>>))
        context_type == Get(data, "context_type", StrResource)
        content_len == IF Truthy(content) THEN WordCount(content) ELSE 0
        tier == TierFor(cfg, content_len)
    IN InsertSource(st, notebook_id, collection, data, record_id, uri, content, context_type,
                    tier,
                    _build_source_name(cfg, uri, tier, context_type, Get(data, "title", None)),
                    reply)

\* insert.  raised is "" when the call returns, else the type of the
\* exception that leaves it: RuntimeError from _require_available or from a
\* failed add_text_source, CollectionNotFoundError for the ValueError of
\* get_notebook_id.  record_id is data["id"] if that is truthy, else a new
\* uuid4.
insert(st, cfg, avail, collection, data, reply) ==
    IF ~avail THEN [st |-> st, raised |-> "RuntimeError", ret |-> None, calls |-> <<>>]
    ELSE IF get_notebook_id(cfg, collection).raised
    THEN [st |-> st, raised |-> "CollectionNotFoundError", ret |-> None, calls |-> <<>>]
    ELSE IF Truthy(Get(data, "id", None))
    THEN InsertFields(st, cfg, get_notebook_id(cfg, collection).ret, collection, data,
                      data["id"], reply)
    ELSE InsertFields([st EXCEPT !.uc = st.uc + 1], cfg,
                      get_notebook_id(cfg, collection).ret, collection, data,
                      Uuid(st.uc + 1), reply)

\* DeleteLoop that gives up at the first deletion the service does not confirm
RECURSIVE DeleteLoop_abort_on_failure(_, _, _, _, _)
DeleteLoop_abort_on_failure(st, collection, ids, replies, acc) ==
    IF ids = <<>> THEN [st |-> st, ret |-> acc.deleted, calls |-> acc.calls]
    ELSE
    LET record_id == Head(ids)
        od == CacheOf(st.cache, collection)
        popped == IF collection \in DOMAIN st.cache
                  THEN [st EXCEPT !.cache[collection] = Pop(od, record_id)]
                  ELSE st
    IN
    IF record_id \notin Keys(od)
    THEN DeleteLoop_abort_on_failure(st, collection, Tail(ids), Tail(replies), acc)
    ELSE
    LET source_id == Get(od[Lookup(od, record_id)].rec, "source_id", None) IN
    IF ~Truthy(source_id)
    THEN DeleteLoop_abort_on_failure(popped, collection, Tail(ids), Tail(replies),
                    [deleted |-> acc.deleted + 1, calls |-> acc.calls])
    ELSE
    LET call == [fn |-> "delete_source", source_id |-> source_id, reply |-> Head(replies)]
        calls == Append(acc.calls, call)
    IN
    IF Head(replies) = "ok"
    THEN DeleteLoop_abort_on_failure(
                    [popped EXCEPT !.ext = [k \in DOMAIN popped.ext \ {source_id} |-> popped.ext[k]]],
                    collection, Tail(ids), Tail(replies),
                    [deleted |-> acc.deleted + 1, calls |-> calls])
    ELSE [st |-> st, ret |-> acc.deleted, calls |-> calls]

\* delete, the body of the loop over ids (lines 550-568); replies[i] is the
\* reply the service gives if the i-th id leads to a delete_source call
RECURSIVE DeleteLoop(_, _, _, _, _)
DeleteLoop(st, collection, ids, replies, acc) ==
    IF ids = <<>> THEN [st |-> st, ret |-> acc.deleted, calls |-> acc.calls]
    ELSE
    LET record_id == Head(ids)
        od == CacheOf(st.cache, collection)
        popped == IF collection \in DOMAIN st.cache
                  THEN [st EXCEPT !.cache[collection] = Pop(od, record_id)]
                  ELSE st
    IN
    IF record_id \notin Keys(od)
    THEN DeleteLoop(st, collection, Tail(ids), Tail(replies), acc)
    ELSE
    LET source_id == Get(od[Lookup(od, record_id)].rec, "source_id", None) IN
    IF ~Truthy(source_id)
    THEN DeleteLoop(popped, collection, Tail(ids), Tail(replies),
                    [deleted |-> acc.deleted + 1, calls |-> acc.calls])
    ELSE
    LET call == [fn |-> "delete_source", source_id |-> source_id, reply |-> Head(replies)]
        calls == Append(acc.calls, call)
    IN
    IF Head(replies) = "ok"
    THEN DeleteLoop([popped EXCEPT !.ext = [k \in DOMAIN popped.ext \ {source_id} |-> popped.ext[k]]],
                    collection, Tail(ids), Tail(replies),
                    [deleted |-> acc.deleted + 1, calls |-> calls])
    ELSE DeleteLoop(st, collection, Tail(ids), Tail(replies),
                    [deleted |-> acc.deleted, calls |-> calls])

\* delete that confirms the deletions but leaves the cache as it was
delete_keeps_cache(st, avail, collection, ids, replies) ==
    IF ~avail THEN [st |-> st, ret |-> 0, calls |-> <<>>]
    ELSE LET r == DeleteLoop(st, collection, ids, replies, [deleted |-> 0, calls |-> <<>>])
         IN [st |-> [r.st EXCEPT !.cache = st.cache], ret |-> r.ret, calls |-> r.calls]

\* delete: RuntimeError from _require_available is caught and 0 is returned
delete(st, avail, collection, ids, replies) ==
    IF ~avail THEN [st |-> st, ret |-> 0, calls |-> <<>>]
    ELSE DeleteLoop(st, collection, ids, replies, [deleted |-> 0, calls |-> <<>>])

\* update, line 517 and the return: d is what delete returned and left
\* behind, i what insert did after it; an exception of insert is caught and
\* False is returned
UpdateInserted(d, i) == [st |-> i.st, ret |-> (i.raised = ""), calls |-> d.calls \o i.calls]

\* update, lines 516-517: the count returned by delete is not looked at
UpdateDeleted(d, cfg, avail, collection, updated_data, add_reply) ==
    UpdateInserted(d, insert(d.st, cfg, avail, collection, updated_data, add_reply))

\* update that re-inserts the new fields alone instead of the merged record
update_without_merge(st, cfg, avail, collection, id, data, delete_reply, add_reply) ==
    IF get(st, collection, <<id>>) = <<>> THEN [st |-> st, ret |-> FALSE, calls |-> <<>>]
    ELSE UpdateDeleted(delete(st, avail, collection, <<id>>, <<delete_reply>>),
                       cfg, avail, collection, Merge(data, [id |-> id]), add_reply)

\* update
update(st, cfg, avail, collection, id, data, delete_reply, add_reply) ==
    IF get(st, collection, <<id>>) = <<>> THEN [st |-> st, ret |-> FALSE, calls |-> <<>>]
    ELSE UpdateDeleted(delete(st, avail, collection, <<id>>, <<delete_reply>>),
                       cfg, avail, collection,
                       Merge(Merge(get(st, collection, <<id>>)[1], data), [id |-> id]),
                       add_reply)

---------------------------------------------------------------------------
(* NotebookLMBackend: filter                                               *)
(*                                                                         *)
(* A filter is a dict: {} or {"op": ..., "conds": [...]} or                *)
(* {"field": ..., "conds": [...]}.  The items of a conds list are of two   *)
(* Python types, which _matches_filter tells apart with isinstance; an     *)
(* item is [dict |-> d] for a dict d and [value |-> v] for a str v.        *)

\* filter(): limit: int = 10
DefaultLimit == 10

\* batch_delete(): filter(collection, filter, limit=10000)
BatchDeleteLimit == 10000

\* s[a:b] for 0 <= a <= b
Slice(s, a, b) == SubSeq(s, a + 1, IF b < Len(s) THEN b ELSE Len(s))

\* {k: v for k, v in r.items() if k in keys}
Restrict(r, keys) == [k \in DOMAIN r \cap keys |-> r[k]]

\* _matches_filter that rejects a record when the operator is neither
\* "and" nor "or"
RECURSIVE _matches_filter_rejecting_unknown_op(_, _)
_matches_filter_rejecting_unknown_op(record, flt) ==
    IF DOMAIN flt = {} THEN TRUE
    ELSE
    LET op == Get(flt, "op", "and")
        conds == Get(flt, "conds", <<>>)
        dicts == {n \in 1..Len(conds) : "dict" \in DOMAIN conds[n]}
    IN
    IF conds = <<>> THEN TRUE
    ELSE IF op = "and"
    THEN \A n \in dicts : _matches_filter_rejecting_unknown_op(record, conds[n]["dict"])
    ELSE IF op = "or"
    THEN dicts = {} \/ \E n \in dicts : _matches_filter_rejecting_unknown_op(record, conds[n]["dict"])
    ELSE FALSE

RECURSIVE _matches_filter(_, _)
_matches_filter(record, flt) ==
    IF DOMAIN flt = {} THEN TRUE
    ELSE
    LET op == Get(flt, "op", "and")
        conds == Get(flt, "conds", <<>>)
        dicts == {n \in 1..Len(conds) : "dict" \in DOMAIN conds[n]}
    IN
    IF conds = <<>>
    THEN \* lines 804-810: expected is the same empty list, so the membership
         \* test at line 809 is never reached
         IF "field" \in DOMAIN flt /\ flt["field"] \in DOMAIN record /\ Get(flt, "conds", <<>>) # <<>>
         THEN \E n \in 1..Len(conds) :
                  "value" \in DOMAIN conds[n] /\ conds[n]["value"] = record[flt["field"]]
         ELSE TRUE
    ELSE IF op = "and" THEN \A n \in dicts : _matches_filter(record, conds[n]["dict"])
    ELSE IF op = "or" THEN dicts = {} \/ \E n \in dicts : _matches_filter(record, conds[n]["dict"])
    ELSE TRUE

\* filter that counts the offset from 1
filter_offset_from_one(st, collection, flt, limit, offset, output_fields) ==
    LET od == CacheOf(st.cache, collection)
        records == [n \in 1..Len(od) |-> od[n].rec]
        filtered == IF DOMAIN flt # {}
                    THEN SelectSeq(records, LAMBDA r : _matches_filter(r, flt))
                    ELSE records
        page == Slice(filtered, offset + 1, offset + 1 + limit)
    IN IF output_fields # {}
       THEN [n \in 1..Len(page) |-> Restrict(page[n], output_fields \cup {"id"})]
       ELSE page

\* filter, called without order_by (the sort at lines 777-782 is skipped);
\* output_fields is a set of field names, empty when the argument is omitted
filter(st, collection, flt, limit, offset, output_fields) ==
    LET od == CacheOf(st.cache, collection)
        records == [n \in 1..Len(od) |-> od[n].rec]
        filtered == IF DOMAIN flt # {}
                    THEN SelectSeq(records, LAMBDA r : _matches_filter(r, flt))
                    ELSE records
        page == Slice(filtered, offset, offset + limit)
    IN IF output_fields # {}
       THEN [n \in 1..Len(page) |-> Restrict(page[n], output_fields \cup {"id"})]
       ELSE page

---------------------------------------------------------------------------
(* NotebookLMBackend: upsert and the batch operations *)

\* upsert, lines 530-531: the result of update is dropped, the id returned
UpsertUpdated(u, record_id) == [st |-> u.st, raised |-> "", ret |-> record_id, calls |-> u.calls]

\* upsert: update catches every exception, insert raises as insert does
upsert(st, cfg, avail, collection, data, delete_reply, add_reply) ==
    IF Truthy(Get(data, "id", None)) /\ exists(st, collection, data["id"])
    THEN UpsertUpdated(update(st, cfg, avail, collection, data["id"], data, delete_reply, add_reply), data["id"])
    ELSE insert(st, cfg, avail, collection, data, add_reply)

\* batch_insert, the loop over data (lines 604-606): i is what insert did for
\* the record at the head; an exception of insert leaves the loop and the
\* method, and the ids collected so far are not returned
RECURSIVE BatchInsertLoop(_, _, _, _, _, _, _)
RECURSIVE BatchInsertStep(_, _, _, _, _, _, _)
BatchInsertStep(i, cfg, avail, collection, data, replies, acc) ==
    IF i.raised # ""
    THEN [st |-> i.st, raised |-> i.raised, ret |-> None, calls |-> acc.calls \o i.calls]
    ELSE BatchInsertLoop(i.st, cfg, avail, collection, data, replies,
                         [ids |-> Append(acc.ids, i.ret), calls |-> acc.calls \o i.calls])

BatchInsertLoop(st, cfg, avail, collection, data, replies, acc) ==
    IF data = <<>> THEN [st |-> st, raised |-> "", ret |-> acc.ids, calls |-> acc.calls]
    ELSE BatchInsertStep(insert(st, cfg, avail, collection, Head(data), Head(replies)),
                         cfg, avail, collection, Tail(data), Tail(replies), acc)

\* batch_insert; replies[n] is the reply of the service to the n-th record
batch_insert(st, cfg, avail, collection, data, replies) ==
    BatchInsertLoop(st, cfg, avail, collection, data, replies, [ids |-> <<>>, calls |-> <<>>])

\* batch_upsert, the loop over data (lines 612-614)
RECURSIVE BatchUpsertLoop(_, _, _, _, _, _, _, _)
RECURSIVE BatchUpsertStep(_, _, _, _, _, _, _, _)
BatchUpsertStep(u, cfg, avail, collection, data, delete_replies, add_replies, acc) ==
    IF u.raised # ""
    THEN [st |-> u.st, raised |-> u.raised, ret |-> None, calls |-> acc.calls \o u.calls]
    ELSE BatchUpsertLoop(u.st, cfg, avail, collection, data, delete_replies, add_replies,
                         [ids |-> Append(acc.ids, u.ret), calls |-> acc.calls \o u.calls])

BatchUpsertLoop(st, cfg, avail, collection, data, delete_replies, add_replies, acc) ==
    IF data = <<>> THEN [st |-> st, raised |-> "", ret |-> acc.ids, calls |-> acc.calls]
    ELSE BatchUpsertStep(upsert(st, cfg, avail, collection, Head(data), Head(delete_replies),
                                Head(add_replies)),
                         cfg, avail, collection, Tail(data), Tail(delete_replies),
                         Tail(add_replies), acc)

\* batch_upsert
batch_upsert(st, cfg, avail, collection, data, delete_replies, add_replies) ==
    BatchUpsertLoop(st, cfg, avail, collection, data, delete_replies, add_replies,
                    [ids |-> <<>>, calls |-> <<>>])

\* batch_delete, lines 620-624: matching is what filter returned
BatchDeleteMatching(st, avail, collection, matching, replies) ==
    IF matching = <<>> THEN [st |-> st, ret |-> 0, calls |-> <<>>]
    ELSE LET with_id == SelectSeq(matching, LAMBDA r : Truthy(Get(r, "id", None)))
         IN delete(st, avail, collection, [n \in 1..Len(with_id) |-> with_id[n]["id"]], replies)

\* batch_delete; replies[n] is the reply of the service for the n-th match
batch_delete(st, avail, collection, flt, replies) ==
    BatchDeleteMatching(st, avail, collection,
                        filter(st, collection, flt, BatchDeleteLimit, 0, {}), replies)

---------------------------------------------------------------------------
(* NotebookLMBackend: search                                               *)
(*                                                                         *)
(* The reply of the service to query() is [kind |-> "fail"] (no success),  *)
(* [kind |-> "error"] (status "error") or [kind |-> "ok", sources |-> s],  *)
(* s a list of dicts with the keys title, snippet and source_id, each of   *)
(* which may be missing.                                                   *)

StrUnknown == <<"u", "n", "k", "n", "o", "w", "n">>

\* None given where a dict may be given (filter, sparse_query_vector)
NoneDict == [None |-> TRUE]

\* search(): limit: int = 10
SearchDefaultLimit == 10

\* search, lines 682-690: the query text taken from the filter.  The result
\* is [ok |-> FALSE] when an exception ends the search before any call:
\* cond.get on an item of conds that is not a dict (AttributeError), [0] on
\* an empty conds list of the query condition (IndexError), or a dict taken
\* as the query text, which _query cannot escape (AttributeError).
RECURSIVE QueryFromConds(_)
QueryFromConds(conds) ==
    IF conds = <<>> THEN [ok |-> TRUE, text |-> <<>>]
    ELSE IF "dict" \notin DOMAIN Head(conds) THEN [ok |-> FALSE]
    ELSE IF Get(Head(conds)["dict"], "field", "") = "query"
    THEN LET values == Get(Head(conds)["dict"], "conds", <<[value |-> <<>>]>>)
         IN IF values = <<>> THEN [ok |-> FALSE]
            ELSE IF "value" \in DOMAIN values[1] THEN [ok |-> TRUE, text |-> values[1]["value"]]
            ELSE [ok |-> FALSE]
    ELSE QueryFromConds(Tail(conds))

query_text(flt) ==
    IF flt = NoneDict \/ DOMAIN flt = {} THEN [ok |-> TRUE, text |-> <<>>]
    ELSE IF Truthy(Get(flt, "query", <<>>)) THEN [ok |-> TRUE, text |-> flt["query"]]
    ELSE IF "conds" \in DOMAIN flt THEN QueryFromConds(flt["conds"])
    ELSE [ok |-> TRUE, text |-> <<>>]

\* how many of the first n sources carry no source_id: each gets a uuid4
Unidentified(sources, n) == Cardinality({j \in 1..n : "source_id" \notin DOMAIN sources[j]})

\* search, lines 712-722: the record made of the source at 0-based position
\* i.  _score is 1.0 - i * 0.1, kept here as the number of tenths, 10 - i.
SearchRecord(st, collection, sources, i) ==
    LET source == sources[i + 1]
        source_title == Get(source, "title", <<>>)
        parsed == _parse_source_name(source_title)
    IN [id |-> Get(source, "source_id", Uuid(st.uc + Unidentified(sources, i + 1))),
        uri |-> StrViking \o collection \o <<"/">> \o Get(parsed, "uri_hash", StrUnknown),
        content |-> Get(source, "snippet", <<>>),
        title |-> Get(parsed, "title", source_title),
        context_type |-> Get(parsed, "context_type", StrResource),
        _score |-> 10 - i]

\* search, lines 707-729: the records of a successful query
SearchRecords(st, collection, sources, limit, offset, output_fields) ==
    LET taken == Slice(sources, 0, limit)
        records == [n \in 1..Len(taken) |->
                       IF output_fields # {}
                       THEN Restrict(SearchRecord(st, collection, sources, n - 1),
                                     output_fields \cup {"id", "_score"})
                       ELSE SearchRecord(st, collection, sources, n - 1)]
    IN [st |-> [st EXCEPT !.uc = st.uc + Unidentified(sources, Len(taken))],
        raised |-> "",
        ret |-> IF offset # 0 THEN Slice(records, offset, offset + limit)
                ELSE Slice(records, 0, limit)]

\* search, lines 696-705: the query call; q is the extracted query text
SearchQuery(st, notebook_id, collection, q, limit, offset, output_fields, reply) ==
    LET call == [fn |-> "query", notebook_id |-> notebook_id, query_text |-> q,
                 reply |-> reply.kind]
    IN IF reply.kind # "ok"
       THEN [st |-> st, raised |-> "", ret |-> <<>>, calls |-> <<call>>]
       ELSE [calls |-> <<call>>]
                @@ SearchRecords(st, collection, reply.sources, limit, offset, output_fields)

\* search that takes the first limit results only when a query vector is given
search_using_vector(st, cfg, avail, collection, query_vector, sparse_query_vector, flt, limit, offset, output_fields, reply) ==
    IF ~avail THEN [st |-> st, raised |-> "", ret |-> <<>>, calls |-> <<>>]
    ELSE IF get_notebook_id(cfg, collection).raised
    THEN [st |-> st, raised |-> "CollectionNotFoundError", ret |-> None, calls |-> <<>>]
    ELSE IF ~query_text(flt).ok \/ (query_vector = None /\ sparse_query_vector = NoneDict)
    THEN [st |-> st, raised |-> "", ret |-> <<>>, calls |-> <<>>]
    ELSE IF ~Truthy(query_text(flt).text)
    THEN [st |-> st, raised |-> "", ret |-> <<>>, calls |-> <<>>]
    ELSE SearchQuery(st, get_notebook_id(cfg, collection).ret, collection, query_text(flt).text,
                     limit, offset, output_fields, reply)

\* search that scores by the position in the returned page
search_scoring_page(st, cfg, avail, collection, query_vector, sparse_query_vector, flt, limit, offset, output_fields, reply) ==
    IF ~avail THEN [st |-> st, raised |-> "", ret |-> <<>>, calls |-> <<>>]
    ELSE IF get_notebook_id(cfg, collection).raised
    THEN [st |-> st, raised |-> "CollectionNotFoundError", ret |-> None, calls |-> <<>>]
    ELSE IF ~query_text(flt).ok
    THEN [st |-> st, raised |-> "", ret |-> <<>>, calls |-> <<>>]
    ELSE IF ~Truthy(query_text(flt).text)
    THEN [st |-> st, raised |-> "", ret |-> <<>>, calls |-> <<>>]
    ELSE LET r == SearchQuery(st, get_notebook_id(cfg, collection).ret, collection,
                              query_text(flt).text, limit, offset, output_fields, reply)
         IN [r EXCEPT !.ret = [n \in 1..Len(r.ret) |->
                                  IF "_score" \in DOMAIN r.ret[n]
                                  THEN [r.ret[n] EXCEPT !["_score"] = 10 - (n - 1)]
                                  ELSE r.ret[n]]]

\* search.  The RuntimeError of _require_available and the exceptions of
\* the extraction are caught and [] is returned; the ValueError of
\* get_notebook_id is raised again as CollectionNotFoundError.  The two
\* vectors are not read.
search(st, cfg, avail, collection, query_vector, sparse_query_vector, flt, limit, offset, output_fields, reply) ==
    IF ~avail THEN [st |-> st, raised |-> "", ret |-> <<>>, calls |-> <<>>]
    ELSE IF get_notebook_id(cfg, collection).raised
    THEN [st |-> st, raised |-> "CollectionNotFoundError", ret |-> None, calls |-> <<>>]
    ELSE IF ~query_text(flt).ok
    THEN [st |-> st, raised |-> "", ret |-> <<>>, calls |-> <<>>]
    ELSE IF ~Truthy(query_text(flt).text)
    THEN [st |-> st, raised |-> "", ret |-> <<>>, calls |-> <<>>]
    ELSE SearchQuery(st, get_notebook_id(cfg, collection).ret, collection, query_text(flt).text,
                     limit, offset, output_fields, reply)

---------------------------------------------------------------------------
(* NotebookLMBackend: scroll, count, clear and the collection operations *)

\* scroll(): limit: int = 100
ScrollDefaultLimit == 100

\* count(): filter(collection, filter, limit=100000)
CountLimit == 100000

DecimalDigits == <<"0", "1", "2", "3", "4", "5", "6", "7", "8", "9">>

DigitValue(c) == (CHOOSE d \in 1..10 : DecimalDigits[d] = c) - 1

\* int(s) for a str of decimal digits; [ok |-> FALSE] is the ValueError of
\* any other str (signs, blanks and underscores are not given here)
RECURSIVE ParseDigits(_, _)
ParseDigits(s, acc) ==
    IF s = <<>> THEN acc
    ELSE ParseDigits(Tail(s), 10 * acc + DigitValue(Head(s)))

int(s) ==
    IF s # <<>> /\ \A i \in 1..Len(s) : \E d \in 1..10 : DecimalDigits[d] = s[i]
    THEN [ok |-> TRUE, n |-> ParseDigits(s, 0)]
    ELSE [ok |-> FALSE]

\* str(n) for n >= 0
RECURSIVE str(_)
str(n) ==
    IF n < 10 THEN <<DecimalDigits[n + 1]>>
    ELSE str(n \div 10) \o <<DecimalDigits[(n % 10) + 1]>>

\* filter or {}
OrEmpty(flt) == IF flt = NoneDict THEN EmptyDict ELSE flt

\* scroll, lines 835-844: offset is the cursor read as a number
ScrollFrom(st, collection, flt, limit, offset, output_fields) ==
    LET records == filter(st, collection, OrEmpty(flt), limit, offset, output_fields)
    IN [st |-> st, raised |-> "",
        ret |-> [records |-> records,
                 next_cursor |-> IF Len(records) = limit THEN str(offset + limit) ELSE None],
        calls |-> <<>>]

\* scroll; cursor is None or a str.  The ValueError of int(cursor) is not
\* caught.
scroll(st, collection, flt, limit, cursor, output_fields) ==
    IF ~Truthy(cursor) THEN ScrollFrom(st, collection, flt, limit, 0, output_fields)
    ELSE IF ~int(cursor).ok
    THEN [st |-> st, raised |-> "ValueError", ret |-> None, calls |-> <<>>]
    ELSE ScrollFrom(st, collection, flt, limit, int(cursor).n, output_fields)

\* count that makes a cache entry for a collection it has not seen
count_creating_entry(st, collection, flt) ==
    [st |-> [st EXCEPT !.cache = (collection :> CacheOf(st.cache, collection)) @@ st.cache],
     raised |-> "",
     ret |-> IF flt # NoneDict /\ DOMAIN flt # {}
             THEN Len(filter(st, collection, flt, CountLimit, 0, {}))
             ELSE Len(CacheOf(st.cache, collection)),
     calls |-> <<>>]

\* count
count(st, collection, flt) ==
    [st |-> st, raised |-> "",
     ret |-> IF flt # NoneDict /\ DOMAIN flt # {}
             THEN Len(filter(st, collection, flt, CountLimit, 0, {}))
             ELSE Len(CacheOf(st.cache, collection)),
     calls |-> <<>>]

\* clear, lines 890-892: d is what delete did, whatever it returned
Cleared(d, collection) ==
    [st |-> [d.st EXCEPT !.cache = (collection :> <<>>) @@ d.st.cache],
     raised |-> "", ret |-> TRUE, calls |-> d.calls]

\* clear; replies[n] is the reply of the service for the n-th cached record
clear(st, avail, collection, replies) ==
    LET od == CacheOf(st.cache, collection) IN
    IF od = <<>> THEN Cleared([st |-> st, calls |-> <<>>], collection)
    ELSE Cleared(delete(st, avail, collection, [n \in 1..Len(od) |-> od[n].key], replies),
                 collection)

\* the replies of the service to create_notebook: no success, a result
\* without id, or the id of the new notebook
CreateReplies == {[kind |-> "fail"], [kind |-> "no_id"], [kind |-> "ok", id |-> <<"n", "b", "-", "2">>]}

StrOpenViking == <<"O", "p", "e", "n", "V", "i", "k", "i", "n", "g", "-">>

\* create_collection that asks the service for a notebook without looking
\* for the name in the mapping first
create_collection_without_mapped_check(cfg, avail, name, reply) ==
    IF ~avail THEN [cfg |-> cfg, raised |-> "", ret |-> FALSE, calls |-> <<>>]
    ELSE
    LET call == [fn |-> "create_notebook", title |-> StrOpenViking \o name, reply |-> reply.kind] IN
    IF reply.kind = "ok" /\ Truthy(reply.id)
    THEN [cfg |-> [cfg EXCEPT !.notebook_mapping = (name :> reply.id) @@ cfg.notebook_mapping],
          raised |-> "", ret |-> TRUE, calls |-> <<call>>]
    ELSE [cfg |-> cfg, raised |-> "", ret |-> FALSE, calls |-> <<call>>]

\* create_collection
create_collection(cfg, avail, name, reply) ==
    IF ~avail THEN [cfg |-> cfg, raised |-> "", ret |-> FALSE, calls |-> <<>>]
    ELSE IF name \in DOMAIN cfg.notebook_mapping
    THEN [cfg |-> cfg, raised |-> "", ret |-> FALSE, calls |-> <<>>]
    ELSE
    LET call == [fn |-> "create_notebook", title |-> StrOpenViking \o name, reply |-> reply.kind] IN
    IF reply.kind = "ok" /\ Truthy(reply.id)
    THEN [cfg |-> [cfg EXCEPT !.notebook_mapping = (name :> reply.id) @@ cfg.notebook_mapping],
          raised |-> "", ret |-> TRUE, calls |-> <<call>>]
    ELSE [cfg |-> cfg, raised |-> "", ret |-> FALSE, calls |-> <<call>>]

\* the replies of the service to delete_notebook: no success, success
\* without confirmation, confirmation
DropReplies == {"fail", "refused", "ok"}

\* dict.pop(k, None)
Without(d, k) == [j \in DOMAIN d \ {k} |-> d[j]]

\* drop_collection, lines 354-366: the service deletes the notebook with
\* its sources
Dropped(st, cfg, name, notebook_id, reply) ==
    LET call == [fn |-> "delete_notebook", notebook_id |-> notebook_id, reply |-> reply] IN
    IF reply = "ok"
    THEN [st |-> [st EXCEPT !.cache = Without(st.cache, name),
                            !.ext = [s \in {k \in DOMAIN st.ext : st.ext[k].notebook_id # notebook_id}
                                        |-> st.ext[s]]],
          cfg |-> [cfg EXCEPT !.notebook_mapping = Without(cfg.notebook_mapping, name)],
          raised |-> "", ret |-> TRUE, calls |-> <<call>>]
    ELSE [st |-> st, cfg |-> cfg, raised |-> "", ret |-> FALSE, calls |-> <<call>>]

\* drop_collection: the RuntimeError of _require_available and the
\* ValueError of get_notebook_id are caught
drop_collection(st, cfg, avail, name, reply) ==
    IF ~avail \/ get_notebook_id(cfg, name).raised
    THEN [st |-> st, cfg |-> cfg, raised |-> "", ret |-> FALSE, calls |-> <<>>]
    ELSE Dropped(st, cfg, name, get_notebook_id(cfg, name).ret, reply)

\* the replies of the service to get_notebook: no success, a result that
\* says "error", the notebook
GetNotebookReplies == {"fail", "error", "ok"}

\* collection_exists: _require_available is not called
collection_exists(cfg, name, reply) ==
    IF get_notebook_id(cfg, name).raised
    THEN [raised |-> "", ret |-> FALSE, calls |-> <<>>]
    ELSE [raised |-> "", ret |-> (reply = "ok"),
          calls |-> <<[fn |-> "get_notebook", notebook_id |-> get_notebook_id(cfg, name).ret,
                       reply |-> reply]>>]

---------------------------------------------------------------------------
(* Inputs of the configuration and naming checks *)

CollResources == <<"r", "e", "s", "o", "u", "r", "c", "e", "s">>
CollMemories == <<"m", "e", "m", "o", "r", "i", "e", "s">>
CollUnknown == <<"u", "n", "k", "n", "o", "w", "n">>
Nb1 == <<"n", "b", "-", "1">>
Nb2 == <<"n", "b", "-", "2">>
NbDefault == <<"n", "b", "-", "d">>


StatusPattern ==
    <<"{", "t", "i", "e", "r", "}", "-",
      "{", "c", "o", "n", "t", "e", "x", "t", "_", "t", "y", "p", "e", "}", "-",
      "{", "u", "r", "i", "_", "h", "a", "s", "h", "}", "-",
      "{", "t", "i", "t", "l", "e", "}", "-", "{", "s", "t", "a", "t", "u", "s", "}">>
NoTierPattern ==
    <<"n", "o", "-", "t", "i", "e", "r", "-", "p", "l", "a", "c", "e", "h", "o", "l", "d", "e", "r">>
UnknownFieldPattern == <<"{", "t", "i", "e", "r", "}", "-", "{", "n", "a", "m", "e", "}">>

MappingInputs == {EmptyDict, (CollResources :> Nb1)}
DefaultIdInputs == {None, <<>>, NbDefault}
TierConfigInputs == {DefaultTierConfig, [L0 |-> 100, L1 |-> 2000], [L2 |-> 0]}
PatternInputs == {DefaultPattern, StatusPattern, NoTierPattern, UnknownFieldPattern}

ConfigInputs ==
    [notebook_mapping : MappingInputs, default_notebook_id : DefaultIdInputs,
     tier_config : TierConfigInputs, source_naming_pattern : PatternInputs]

\* Titles: every string over {a, -} of at most MaxTitleLen characters, and
\* two long ones on either side of the truncation limit.
MaxTitleLen == 3
SeqsUpTo(S, n) == UNION {[1..k -> S] : k \in 0..n}
LongTitle(n) == [i \in 1..n |-> IF i % 7 = 0 THEN "-" ELSE "x"]
TitleInputs == SeqsUpTo({"a", "-"}, MaxTitleLen) \cup {LongTitle(TitleLimit), LongTitle(TitleLimit + 1)}

TierInputs == {TierL0, TierL1, TierL2, <<"L", "-", "0">>}
ContextTypeInputs == {StrResource, StrMemory, <<"a", "-", "b">>}
UriInputs ==
    {<<"v", "i", "k", "i", "n", "g", ":", "/", "/", "d", "o", "c", "s", "/", "a">>,
     <<"v", "i", "k", "i", "n", "g", ":", "/", "/", "d", "o", "c", "s", "/", "a", "-", "b">>,
     <<"a", "-", "b">>}
FormatTitleInputs == {<<>>, <<"a">>, <<"a", "-", "a">>}
HashInputs == {<<"a", "b", "c", "1", "2", "3">>, <<"d", "e", "f", "4", "5", "6">>}
StatusInputs == {StrActive, StrArchived}
CollectionInputs == {CollResources, CollMemories, CollUnknown}

NoDash(s) == \A i \in 1..Len(s) : s[i] # "-"

---------------------------------------------------------------------------
(* Configuration: one call per step *)

IdleBackend ==
    /\ source_cache = EmptyDict
    /\ available = TRUE
    /\ ext_sources = EmptyDict
    /\ source_count = 0
    /\ uuid_count = 0
    /\ tasks = <<>>

BackendUnchanged == UNCHANGED <<source_cache, available, ext_sources, source_count, uuid_count, tasks>>

\* A configuration object exists only if validate_config accepted it.
InitConfig ==
    /\ config \in {c \in ConfigInputs : validate_config(c).ok}
    /\ IdleBackend
    /\ last = [op |-> "init"]

\* NotebookLMConfig(...): pydantic runs validate_config after the fields are
\* set; on ValueError no object is produced.
NewConfig ==
    \E c \in ConfigInputs :
        LET v == validate_config(c) IN
        /\ config' = IF v.ok THEN c ELSE config
        /\ last' = [op |-> "NotebookLMConfig", args |-> c, ok |-> v.ok,
                    error |-> v.error, missing |-> v.missing]
        /\ BackendUnchanged

GetNotebookId ==
    \E name \in CollectionInputs :
        LET r == get_notebook_id(config, name) IN
        /\ last' = [op |-> "get_notebook_id", collection |-> name, raised |-> r.raised,
                    ret |-> r.ret, named |-> r.named]
        /\ UNCHANGED config
        /\ BackendUnchanged

NextConfig ==
    \/ NewConfig
    \/ GetNotebookId

SpecConfig == InitConfig /\ [][NextConfig]_vars

---------------------------------------------------------------------------
(* Naming codec: the arguments are drawn at the start, a step applies the *)
(* function to them                                                       *)

\* format_source_name with the status given, or omitted (status = "ACTIVE").
FormatCalls ==
    {[op |-> "call", fn |-> "format_source_name", tier |-> tier, context_type |-> ct,
      uri_hash |-> h, title |-> title, status |-> IF given THEN status ELSE StrActive,
      status_given |-> given] :
        tier \in TierInputs, ct \in ContextTypeInputs, h \in HashInputs,
        title \in FormatTitleInputs, status \in StatusInputs, given \in BOOLEAN}

\* _parse_source_name(_build_source_name(uri, tier, context_type, title))
BuildCalls ==
    {[op |-> "call", fn |-> "_build_source_name", uri |-> uri, tier |-> tier,
      context_type |-> ct, title |-> title] :
        uri \in UriInputs, tier \in TierInputs, ct \in ContextTypeInputs,
        title \in TitleInputs \cup {None}}

\* _parse_source_name on a name that no _build_source_name produced
ParseCalls ==
    {[op |-> "call", fn |-> "_parse_source_name", source_name |-> name] :
        name \in TitleInputs \cup {DefaultPattern}}

\* The naming codec reads only source_naming_pattern.
InitNaming ==
    /\ config \in {c \in ConfigInputs : /\ validate_config(c).ok
                                        /\ c.notebook_mapping # EmptyDict
                                        /\ c.default_notebook_id = None}
    /\ IdleBackend
    /\ last \in FormatCalls \cup BuildCalls \cup ParseCalls

FormatSourceName ==
    /\ last.op = "call" /\ last.fn = "format_source_name"
    /\ LET r == format_source_name(config, last.tier, last.context_type, last.uri_hash,
                                   last.title, last.status)
       IN last' = [op |-> "format_source_name", tier |-> last.tier,
                   context_type |-> last.context_type, uri_hash |-> last.uri_hash,
                   title |-> last.title, status |-> last.status,
                   status_given |-> last.status_given, raised |-> ~r.ok, ret |-> r.s]
    /\ UNCHANGED config
    /\ BackendUnchanged

BuildThenParse ==
    /\ last.op = "call" /\ last.fn = "_build_source_name"
    /\ LET r == _build_source_name(config, last.uri, last.tier, last.context_type, last.title)
       IN last' = [op |-> "_build_source_name", uri |-> last.uri, tier |-> last.tier,
                   context_type |-> last.context_type, title |-> last.title,
                   raised |-> ~r.ok, ret |-> r.s,
                   parsed |-> IF r.ok THEN _parse_source_name(r.s) ELSE EmptyDict]
    /\ UNCHANGED config
    /\ BackendUnchanged

ParseSourceName ==
    /\ last.op = "call" /\ last.fn = "_parse_source_name"
    /\ last' = [op |-> "_parse_source_name", source_name |-> last.source_name,
                ret |-> _parse_source_name(last.source_name)]
    /\ UNCHANGED config
    /\ BackendUnchanged

NextNaming ==
    \/ FormatSourceName
    \/ BuildThenParse
    \/ ParseSourceName

SpecNaming == InitNaming /\ [][NextNaming]_vars

---------------------------------------------------------------------------
(* The backend: one call of the storage interface per step *)

\* caps on the ids the external service and uuid4 hand out
MaxSources == 2
MaxUuids == 1

IdR1 == <<"r", "1">>
IdR2 == <<"r", "2">>
UriDocsA == <<"v", "i", "k", "i", "n", "g", ":", "/", "/", "d", "o", "c", "s", "/", "a">>
HelloWorld == <<"h", "e", "l", "l", "o", " ", "w", "o", "r", "l", "d">>
ThreeWords == <<"x", " ", "y", " ", "z">>

\* tier thresholds in words, small enough for the contents used here
BackendConfig ==
    [notebook_mapping |-> (CollResources :> Nb1), default_notebook_id |-> None,
     tier_config |-> [L0 |-> 1, L1 |-> 2, L2 |-> 0], source_naming_pattern |-> DefaultPattern]

InsertCalls ==
    {[collection |-> CollResources, data |-> [uri |-> UriDocsA, content |-> HelloWorld]],
     [collection |-> CollResources, data |-> [id |-> IdR1, content |-> <<"a">>]],
     [collection |-> CollResources,
      data |-> [id |-> IdR1, text |-> ThreeWords, title |-> <<"m", "-", "d">>,
                context_type |-> StrMemory]],
     [collection |-> CollMemories, data |-> [id |-> IdR1, content |-> <<"a">>]]}

UpdateCalls ==
    {[collection |-> CollResources, id |-> IdR1, data |-> [content |-> ThreeWords]],
     [collection |-> CollResources, id |-> IdR1, data |-> [id |-> IdR2, title |-> <<"t">>]],
     [collection |-> CollResources, id |-> IdR2, data |-> [content |-> ThreeWords]]}

DeleteCalls ==
    {[collection |-> CollResources, ids |-> <<IdR1>>],
     [collection |-> CollResources, ids |-> <<Uuid(1), IdR1>>]}

GetCalls ==
    {[collection |-> CollResources, ids |-> <<IdR1>>],
     [collection |-> CollResources, ids |-> <<IdR2, Uuid(1), IdR1>>]}

ExistsCalls ==
    {[collection |-> CollResources, id |-> IdR1],
     [collection |-> CollResources, id |-> Uuid(1)]}

\* the state record the operations work on
State == [cache |-> source_cache, ext |-> ext_sources, sc |-> source_count, uc |-> uuid_count]

SetState(st) ==
    /\ source_cache' = st.cache
    /\ ext_sources' = st.ext
    /\ source_count' = st.sc
    /\ uuid_count' = st.uc

\* __init__: an empty cache; whether the pipx venv exists is not known
Init ==
    /\ config = BackendConfig
    /\ source_cache = EmptyDict
    /\ available \in BOOLEAN
    /\ ext_sources = EmptyDict
    /\ source_count = 0
    /\ uuid_count = 0
    /\ tasks = <<>>
    /\ last = [op |-> "init"]

Insert ==
    \E c \in InsertCalls, reply \in AddReplies :
        \E r \in {insert(State, config, available, c.collection, c.data, reply)} :
        /\ r.st.sc <= MaxSources
        /\ r.st.uc <= MaxUuids
        /\ SetState(r.st)
        /\ last' = [op |-> "insert", collection |-> c.collection, data |-> c.data,
                    raised |-> r.raised, ret |-> r.ret, calls |-> r.calls]
        /\ UNCHANGED <<config, available, tasks>>

Update ==
    \E c \in UpdateCalls, delete_reply \in DeleteReplies, add_reply \in AddReplies :
        \E r \in {update(State, config, available, c.collection, c.id, c.data,
                        delete_reply, add_reply)} :
        /\ r.st.sc <= MaxSources
        /\ r.st.uc <= MaxUuids
        /\ SetState(r.st)
        /\ last' = [op |-> "update", collection |-> c.collection, id |-> c.id,
                    data |-> c.data, ret |-> r.ret, calls |-> r.calls]
        /\ UNCHANGED <<config, available, tasks>>

Delete ==
    \E c \in DeleteCalls : \E replies \in [1..Len(c.ids) -> DeleteReplies] :
        \E r \in {delete(State, available, c.collection, c.ids, replies)} :
        /\ SetState(r.st)
        /\ last' = [op |-> "delete", collection |-> c.collection, ids |-> c.ids,
                    ret |-> r.ret, calls |-> r.calls]
        /\ UNCHANGED <<config, available, tasks>>

GetRecords ==
    \E c \in GetCalls :
        /\ last' = [op |-> "get", collection |-> c.collection, ids |-> c.ids,
                    ret |-> get(State, c.collection, c.ids), calls |-> <<>>]
        /\ UNCHANGED <<config, source_cache, available, ext_sources, source_count, uuid_count, tasks>>

Exists ==
    \E c \in ExistsCalls :
        /\ last' = [op |-> "exists", collection |-> c.collection, id |-> c.id,
                    ret |-> exists(State, c.collection, c.id), calls |-> <<>>]
        /\ UNCHANGED <<config, source_cache, available, ext_sources, source_count, uuid_count, tasks>>

Next ==
    \/ Insert
    \/ Update
    \/ Delete
    \/ GetRecords
    \/ Exists

Spec == Init /\ [][Next]_vars

---------------------------------------------------------------------------
(* Filtering: records are inserted without an id, one per step, and the    *)
(* cache is filtered                                                       *)

\* how many records are inserted: one more than the default limit
MaxRecords == 11

FilterData ==
    {[content |-> <<"a">>],
     [content |-> <<"a">>, context_type |-> StrMemory]}

Leaf(field, values) ==
    [field |-> field, conds |-> [n \in 1..Len(values) |-> [value |-> values[n]]]]
Node(op, children) ==
    [op |-> op, conds |-> [n \in 1..Len(children) |-> [dict |-> children[n]]]]

\* {op: and, conds: [{field: f, conds: [v1]}, {field: f, conds: [v2]}]}, v1 # v2
ExclusiveFilters ==
    {Node("and", <<Leaf("context_type", <<StrResource>>), Leaf("context_type", <<StrMemory>>)>>),
     Node("and", <<Leaf("content", <<<<"a">>>>), Leaf("content", <<<<"b">>>>)>>)}

FilterCalls ==
    {[collection |-> CollResources, filter |-> EmptyDict, limit |-> DefaultLimit,
      defaults |-> TRUE],
     [collection |-> CollResources, filter |-> EmptyDict, limit |-> BatchDeleteLimit,
      defaults |-> FALSE],
     [collection |-> CollResources, filter |-> Leaf("context_type", <<StrMemory>>),
      limit |-> DefaultLimit, defaults |-> TRUE]}
    \cup {[collection |-> CollResources, filter |-> f, limit |-> DefaultLimit,
           defaults |-> TRUE] : f \in ExclusiveFilters}

InitFilter ==
    /\ config = BackendConfig
    /\ source_cache = EmptyDict
    /\ available = TRUE
    /\ ext_sources = EmptyDict
    /\ source_count = 0
    /\ uuid_count = 0
    /\ tasks = <<>>
    /\ last = [op |-> "init"]

InsertPlain ==
    \E data \in FilterData :
        \E r \in {insert(State, config, available, CollResources, data, "ok")} :
            /\ r.st.sc <= MaxRecords
            /\ SetState(r.st)
            /\ last' = [op |-> "insert", collection |-> CollResources, data |-> data,
                        raised |-> r.raised, ret |-> r.ret, calls |-> r.calls]
            /\ UNCHANGED <<config, available, tasks>>

\* filter(collection, filter) or filter(collection, filter, limit=...);
\* defaults tells that only the first two arguments were passed
Filter ==
    \E c \in FilterCalls :
        /\ last' = [op |-> "filter", collection |-> c.collection, filter |-> c.filter,
                    limit |-> c.limit, defaults |-> c.defaults,
                    ret |-> filter(State, c.collection, c.filter, c.limit, 0, {}),
                    calls |-> <<>>]
        /\ UNCHANGED <<config, source_cache, available, ext_sources, source_count, uuid_count, tasks>>

NextFilter ==
    \/ InsertPlain
    \/ Filter

SpecFilter == InitFilter /\ [][NextFilter]_vars

---------------------------------------------------------------------------
(* Claims about the record operations (Spec).  A step of Spec is one call; *)
(* last' describes it, the unprimed variables are the state before it.     *)

AllKeys(cache) == UNION {Keys(cache[c]) : c \in DOMAIN cache}

\* the delete_source calls of an operation that the service confirmed
ConfirmedSources(calls) ==
    {calls[j].source_id : j \in {n \in 1..Len(calls) : /\ calls[n].fn = "delete_source"
                                                        /\ calls[n].reply = "ok"}}

\* C1: after insert(collection, data) returns an identifier r without
\* raising, get(collection, [r]) returns exactly one record, and every field
\* supplied in data appears in that record with exactly the inserted value;
\* when data carries no id, r is a freshly generated identifier (a uuid drawn
\* by this call, under which nothing was cached).
C1_InsertThenGet ==
    [][(last'.op = "insert" /\ last'.raised = "") =>
          LET r == last'.ret
              got == get(State', last'.collection, <<r>>)
          IN /\ Len(got) = 1
             /\ \A k \in DOMAIN last'.data :
                    k \in DOMAIN got[1] /\ got[1][k] = last'.data[k]
             /\ "id" \notin DOMAIN last'.data =>
                    /\ uuid_count' = uuid_count + 1
                    /\ r = Uuid(uuid_count')
                    /\ r \notin AllKeys(source_cache)]_vars

\* the example of the specification: {uri, content: "hello world"} was
\* inserted without an id and is returned by get under the generated id
C1_Witness ==
    /\ last.op = "insert"
    /\ last.raised = ""
    /\ "id" \notin DOMAIN last.data
    /\ Len(get(State, last.collection, <<last.ret>>)) = 1
    /\ get(State, last.collection, <<last.ret>>)[1]["content"] = HelloWorld
    /\ last.ret = Uuid(uuid_count)

\* C2, as claimed: after delete(collection, ids) returns, for every id in
\* ids that was cached before the call, exists(collection, id) returns false
\* and get(collection, [id]) returns an empty list.
C2_DeleteRemovesEveryCachedId ==
    [][last'.op = "delete" =>
          \A n \in 1..Len(last'.ids) :
              LET id == last'.ids[n] IN
              exists(State, last'.collection, id) =>
                  /\ ~exists(State', last'.collection, id)
                  /\ get(State', last'.collection, <<id>>) = <<>>]_vars

\* C2, amended: after delete(collection, ids) returns, for every id in ids
\* that was cached before the call and whose source deletion the external
\* service confirmed (or whose cached record has no source id, the service
\* being available), exists(collection, id) returns false and
\* get(collection, [id]) returns an empty list.
C2_DeleteRemovesConfirmedIds ==
    [][last'.op = "delete" =>
          \A n \in 1..Len(last'.ids) :
              LET id == last'.ids[n]
                  before == get(State, last'.collection, <<id>>)
              IN ( /\ exists(State, last'.collection, id)
                   /\ available
                   /\ \/ ~Truthy(Get(before[1], "source_id", None))
                      \/ Get(before[1], "source_id", None) \in ConfirmedSources(last'.calls) ) =>
                     /\ ~exists(State', last'.collection, id)
                     /\ get(State', last'.collection, <<id>>) = <<>>]_vars

\* a delete whose delete_source call was confirmed has returned, and none of
\* its ids is cached any more
C2_Witness ==
    /\ last.op = "delete"
    /\ last.ret >= 1
    /\ ConfirmedSources(last.calls) # {}
    /\ \A n \in 1..Len(last.ids) : ~exists(State, last.collection, last.ids[n])

\* C3, as claimed: after update(collection, id, data) returns True,
\* get(collection, [id]) returns exactly one record stored under the same
\* identifier id, whose fields named in data have the values from data and
\* whose every other previously stored field is unchanged; update on an
\* identifier not in the cache returns False and changes neither cache nor
\* external store.
C3_UpdateMergesData ==
    [][last'.op = "update" =>
          LET before == get(State, last'.collection, <<last'.id>>)
              after == get(State', last'.collection, <<last'.id>>)
          IN /\ last'.ret =>
                   /\ Len(before) = 1 /\ Len(after) = 1
                   /\ \A k \in DOMAIN last'.data :
                          k \in DOMAIN after[1] /\ after[1][k] = last'.data[k]
                   /\ \A k \in DOMAIN before[1] \ DOMAIN last'.data :
                          k \in DOMAIN after[1] /\ after[1][k] = before[1][k]
             /\ before = <<>> =>
                   /\ ~last'.ret
                   /\ UNCHANGED <<source_cache, ext_sources>>]_vars

\* C3, amended: after update(collection, id, data) returns True,
\* get(collection, [id]) returns exactly one record stored under the same
\* identifier id, whose id field is id, whose fields named in data other than
\* id have the values from data and whose every other previously stored field
\* is unchanged; update on an identifier not in the cache returns False and
\* changes neither cache nor external store.
C3_UpdateMergesDataKeepsId ==
    [][last'.op = "update" =>
          LET before == get(State, last'.collection, <<last'.id>>)
              after == get(State', last'.collection, <<last'.id>>)
          IN /\ last'.ret =>
                   /\ Len(before) = 1 /\ Len(after) = 1
                   /\ after[1]["id"] = last'.id
                   /\ \A k \in DOMAIN last'.data \ {"id"} :
                          k \in DOMAIN after[1] /\ after[1][k] = last'.data[k]
                   /\ \A k \in DOMAIN before[1] \ (DOMAIN last'.data \cup {"id"}) :
                          k \in DOMAIN after[1] /\ after[1][k] = before[1][k]
             /\ before = <<>> =>
                   /\ ~last'.ret
                   /\ UNCHANGED <<source_cache, ext_sources>>]_vars

\* an update whose data names another id has returned True: the record is
\* still stored under, and still carries, the id it was updated by, with the
\* new title and the content it had before
C3_Witness ==
    /\ last.op = "update"
    /\ last.ret
    /\ "id" \in DOMAIN last.data /\ last.data["id"] # last.id
    /\ Len(get(State, last.collection, <<last.id>>)) = 1
    /\ get(State, last.collection, <<last.id>>)[1]["id"] = last.id
    /\ get(State, last.collection, <<last.id>>)[1]["title"] = last.data["title"]
    /\ DOMAIN get(State, last.collection, <<last.id>>)[1] \ DOMAIN last.data # {}

\* C4: whenever update(collection, id, data) returns True, the external
\* source that held the record before the update (the source id cached for
\* it) no longer exists in the external store.
C4_UpdateRemovesOldSource ==
    [][(last'.op = "update" /\ last'.ret) =>
          LET before == get(State, last'.collection, <<last'.id>>)
              old == Get(before[1], "source_id", None)
          IN (Truthy(old) /\ old \in DOMAIN ext_sources) =>
                 old \notin DOMAIN ext_sources']_vars

---------------------------------------------------------------------------
(* Claims about filter (SpecFilter).  filter changes nothing, so the cache *)
(* of the state is the cache the call worked on.                           *)

\* list(cache.values())
CachedRecords(collection) ==
    [n \in 1..Len(CacheOf(source_cache, collection)) |->
        CacheOf(source_cache, collection)[n].rec]

Elements(s) == {s[n] : n \in 1..Len(s)}

\* C5, as claimed: filter(collection, {}) called without further arguments
\* returns every record currently cached for the collection, for any number
\* of cached records.
C5_EmptyFilterReturnsAll ==
    (last.op = "filter" /\ DOMAIN last.filter = {} /\ last.defaults) =>
        /\ Len(last.ret) = Len(CachedRecords(last.collection))
        /\ Elements(last.ret) = Elements(CachedRecords(last.collection))

\* C5, amended: filter(collection, {}) called without further arguments
\* returns every record currently cached for the collection when at most 10
\* (the default limit) are cached, and the 10 that were cached first
\* otherwise.
C5_EmptyFilterReturnsFirstTen ==
    (last.op = "filter" /\ DOMAIN last.filter = {} /\ last.defaults) =>
        IF Len(CachedRecords(last.collection)) <= 10
        THEN /\ Len(last.ret) = Len(CachedRecords(last.collection))
             /\ Elements(last.ret) = Elements(CachedRecords(last.collection))
        ELSE last.ret = SubSeq(CachedRecords(last.collection), 1, 10)

\* eleven records are cached and the empty filter has returned ten of them
C5_Witness ==
    /\ last.op = "filter"
    /\ DOMAIN last.filter = {}
    /\ last.defaults
    /\ Len(CachedRecords(last.collection)) = 11
    /\ Len(last.ret) = 10

\* C6: for any cache contents, filter(collection, {op: and, conds: [{field: f,
\* conds: [v1]}, {field: f, conds: [v2]}]}) with v1 != v2 returns no records.
C6_ExclusiveConjunctionIsEmpty ==
    (last.op = "filter" /\ last.filter \in ExclusiveFilters) => last.ret = <<>>

---------------------------------------------------------------------------
(* Claims about the configuration (SpecConfig) *)

\* C7: get_notebook_id(name) returns the mapped identifier when name is a key
\* of the collection mapping, even if a fallback is configured; it returns the
\* fallback identifier when name is unmapped and a fallback is configured (a
\* non-empty default_notebook_id); and it fails with an error naming the
\* collection when name is unmapped and no fallback is configured.
C7_GetNotebookId ==
    last.op = "get_notebook_id" =>
        LET name == last.collection
            mapping == config.notebook_mapping
            fallback == config.default_notebook_id
        IN /\ name \in DOMAIN mapping => ~last.raised /\ last.ret = mapping[name]
           /\ (name \notin DOMAIN mapping /\ Truthy(fallback)) =>
                  ~last.raised /\ last.ret = fallback
           /\ (name \notin DOMAIN mapping /\ ~Truthy(fallback)) =>
                  last.raised /\ last.named = name

\* a mapped name is resolved while a different fallback is configured
C7_Witness ==
    /\ last.op = "get_notebook_id"
    /\ last.collection \in DOMAIN config.notebook_mapping
    /\ Truthy(config.default_notebook_id)
    /\ ~last.raised
    /\ last.ret = config.notebook_mapping[last.collection]
    /\ last.ret # config.default_notebook_id

\* C8: constructing a configuration succeeds if and only if the collection
\* mapping is non-empty or a fallback notebook id is set, the tier
\* configuration contains all of L0, L1 and L2, and the naming pattern
\* contains the {tier} placeholder; otherwise construction fails and the error
\* cites a requirement that is violated (the tier error names exactly the
\* missing tiers).
C8_ConstructionValidity ==
    last.op = "NotebookLMConfig" =>
        LET c == last.args
            hasNotebook == c.notebook_mapping # EmptyDict \/ Truthy(c.default_notebook_id)
            missingTiers == {t \in {"L0", "L1", "L2"} : t \notin DOMAIN c.tier_config}
            hasPlaceholder == Contains(c.source_naming_pattern, TierPlaceholder)
        IN /\ last.ok <=> (hasNotebook /\ missingTiers = {} /\ hasPlaceholder)
           /\ last.ok => config = c
           /\ ~last.ok =>
                \/ last.error = "notebook_mapping or default_notebook_id" /\ ~hasNotebook
                \/ /\ last.error = "tier_config missing required tiers"
                   /\ missingTiers # {}
                   /\ last.missing = missingTiers
                \/ last.error = "source_naming_pattern must include {tier}" /\ ~hasPlaceholder

\* tier_config = {L0: 100, L1: 2000} with a notebook and a valid pattern is
\* rejected, and the error names L2
C8_Witness ==
    /\ last.op = "NotebookLMConfig"
    /\ DOMAIN last.args.tier_config = {"L0", "L1"}
    /\ Truthy(last.args.default_notebook_id)
    /\ last.args.source_naming_pattern = DefaultPattern
    /\ ~last.ok
    /\ last.missing = {"L2"}

---------------------------------------------------------------------------
(* Claims about the naming codec (SpecNaming) *)

\* C9: for a configuration using the default naming pattern,
\* format_source_name(tier, context_type, uri_hash, title, status) returns a
\* name that contains each of the five supplied values; a non-default status
\* (ARCHIVED) appears in the name, and when status is omitted the name
\* contains ACTIVE.
C9_NameContainsAllFields ==
    (last.op = "format_source_name" /\ config.source_naming_pattern = DefaultPattern) =>
        /\ ~last.raised
        /\ Contains(last.ret, last.tier)
        /\ Contains(last.ret, last.context_type)
        /\ Contains(last.ret, last.uri_hash)
        /\ Contains(last.ret, last.title)
        /\ Contains(last.ret, last.status)
        /\ ~last.status_given => Contains(last.ret, StrActive)

\* C10: under the default naming pattern, for every tier and context type
\* that contain no '-' (the hash never does) and every title of at most 50
\* characters, including titles that contain '-',
\* _parse_source_name(_build_source_name(...)) yields exactly the original
\* tier, context type, hash and title; a name with fewer than five
\* '-'-separated parts decodes to the single raw field.
C10_NameRoundTrip ==
    /\ ( /\ last.op = "_build_source_name"
         /\ config.source_naming_pattern = DefaultPattern
         /\ NoDash(last.tier) /\ NoDash(last.context_type)
         /\ last.title # None /\ Len(last.title) <= 50 ) =>
            /\ ~last.raised
            /\ NoDash(_uri_hash(last.uri))
            /\ DOMAIN last.parsed = {"tier", "context_type", "uri_hash", "title", "status"}
            /\ last.parsed.tier = last.tier
            /\ last.parsed.context_type = last.context_type
            /\ last.parsed.uri_hash = _uri_hash(last.uri)
            /\ last.parsed.title = last.title
    /\ ( /\ last.op = "_parse_source_name"
         /\ Len(Split(last.source_name, "-")) < 5 ) =>
            last.ret = [raw |-> last.source_name]

\* a title that itself contains '-' has been encoded and decoded
C10_Witness ==
    /\ last.op = "_build_source_name"
    /\ config.source_naming_pattern = DefaultPattern
    /\ NoDash(last.tier) /\ NoDash(last.context_type)
    /\ last.title # None /\ Len(last.title) <= 50 /\ ~NoDash(last.title)
    /\ ~last.raised
    /\ last.parsed.title = last.title

---------------------------------------------------------------------------
(* Tiering: records of every length are inserted under every pair of      *)
(* thresholds                                                              *)

\* thresholds range over -1..MaxThreshold, contents over 0..MaxWords words
MaxThreshold == 2
MaxWords == 3
\* how many records are inserted
MaxTierRecords == 2

\* n words separated by single spaces
Words(n) == [i \in 1..(2 * n - 1) |-> IF i % 2 = 1 THEN "w" ELSE " "]

TierConfigs ==
    {[L0 |-> a, L1 |-> b, L2 |-> 0] : a \in (-1)..MaxThreshold, b \in (-1)..MaxThreshold}

\* the content is data["content"], else data["text"], else data["abstract"],
\* else ""
TierData ==
    {[content |-> Words(n)] : n \in 0..MaxWords}
        \cup {[text |-> Words(2)], [content |-> <<>>, abstract |-> Words(1)], EmptyDict,
              [content |-> Words(MaxWords), tier |-> TierL0]}

InitTier ==
    /\ config \in {[BackendConfig EXCEPT !.tier_config = t] : t \in TierConfigs}
    /\ source_cache = EmptyDict
    /\ available = TRUE
    /\ ext_sources = EmptyDict
    /\ source_count = 0
    /\ uuid_count = 0
    /\ tasks = <<>>
    /\ last = [op |-> "init"]

InsertTiered ==
    \E data \in TierData, reply \in {"ok", "error"} :
        \E r \in {insert(State, config, available, CollResources, data, reply)} :
            /\ r.st.uc <= MaxTierRecords
            /\ SetState(r.st)
            /\ last' = [op |-> "insert", collection |-> CollResources, data |-> data,
                        raised |-> r.raised, ret |-> r.ret, calls |-> r.calls]
            /\ UNCHANGED <<config, available, tasks>>

NextTier ==
    \/ InsertTiered

SpecTier == InitTier /\ [][NextTier]_vars

---------------------------------------------------------------------------
(* Claims about tiering (SpecTier) *)

\* the tier the claim assigns to a content of n words
ClaimedTier(n) ==
    IF n <= config.tier_config["L0"] THEN "L0"
    ELSE IF n <= config.tier_config["L1"] THEN "L1"
    ELSE "L2"

TierLabel(t) == IF t = TierL0 THEN "L0" ELSE IF t = TierL1 THEN "L1" ELSE IF t = TierL2 THEN "L2" ELSE "?"

\* C11: on insert, a record whose content has n words is assigned tier L0
\* if n <= threshold(L0), else L1 if n <= threshold(L1), else L2; a length
\* equal to a threshold goes to the lower tier and empty content counts as
\* length 0.  The tier is read from the head of the source name given to
\* the service, and from the cached record unless data has a field "tier"
\* of its own; the content is the text given to the service.
C11_TierByLength ==
    [][(last'.op = "insert" /\ last'.raised = "") =>
          LET text == last'.calls[1].text
              n == IF text = <<>> THEN 0 ELSE WordCount(text)
              rec == get(State', last'.collection, <<last'.ret>>)[1]
          IN /\ TierLabel(Take(last'.calls[1].title, 2)) = ClaimedTier(n)
             /\ "tier" \notin DOMAIN last'.data => TierLabel(rec["tier"]) = ClaimedTier(n)]_vars

\* a content exactly as long as the L0 threshold was inserted and got L0,
\* with an L1 threshold that would also admit it
C11_Witness ==
    /\ last.op = "insert"
    /\ last.raised = ""
    /\ last.calls[1].text # <<>>
    /\ WordCount(last.calls[1].text) = config.tier_config["L0"]
    /\ config.tier_config["L1"] > config.tier_config["L0"]
    /\ "tier" \notin DOMAIN last.data
    /\ get(State, last.collection, <<last.ret>>)[1]["tier"] = TierL0
    /\ Take(last.calls[1].title, 2) = TierL0

TierRank(t) == IF t = TierL0 THEN 0 ELSE IF t = TierL1 THEN 1 ELSE 2

\* the tier at the head of a source name
NamedTier(source) == Take(source.title, 2)

\* C12: for every tier configuration (any integer thresholds, including
\* L1 < L0) and any two content lengths n <= m, the tier assigned to length
\* n is not higher than the tier assigned to length m (L0 < L1 < L2).  The
\* two lengths are those of two sources inserted under one configuration,
\* their tiers the ones their names carry.
C12_TierMonotonic ==
    \A s1 \in DOMAIN ext_sources, s2 \in DOMAIN ext_sources :
        WordCount(ext_sources[s1].text) <= WordCount(ext_sources[s2].text)
            => TierRank(NamedTier(ext_sources[s1])) <= TierRank(NamedTier(ext_sources[s2]))

\* under thresholds with L1 < L0, a shorter and a longer record were
\* inserted and got different tiers
C12_Witness ==
    /\ config.tier_config["L1"] < config.tier_config["L0"]
    /\ \E s1 \in DOMAIN ext_sources, s2 \in DOMAIN ext_sources :
        /\ WordCount(ext_sources[s1].text) < WordCount(ext_sources[s2].text)
        /\ TierRank(NamedTier(ext_sources[s1])) < TierRank(NamedTier(ext_sources[s2]))

---------------------------------------------------------------------------
(* Claims about best-effort deletion (Spec) *)

\* the record cached under id before the step
CachedRec(collection, id) ==
    CacheOf(source_cache, collection)[Lookup(CacheOf(source_cache, collection), id)].rec

\* the ids of a delete call that were cached with a source id before it
WithSource(collection, ids) ==
    {id \in Elements(ids) : /\ id \in Keys(CacheOf(source_cache, collection))
                            /\ Truthy(Get(CachedRec(collection, id), "source_id", None))}

\* the ids of a delete call that were cached without a source id before it
WithoutSource(collection, ids) ==
    {id \in Elements(ids) : /\ id \in Keys(CacheOf(source_cache, collection))
                            /\ ~Truthy(Get(CachedRec(collection, id), "source_id", None))}

\* the source ids of the delete_source calls of an operation
AttemptedSources(calls) ==
    {calls[j].source_id : j \in {n \in 1..Len(calls) : calls[n].fn = "delete_source"}}

\* C13, as claimed: delete(collection, ids) attempts every identifier in ids
\* even when the external deletion of an earlier one fails, the returned
\* count equals the number of identifiers whose source deletion the service
\* confirmed, and identifiers whose external deletion failed stay in the
\* cache and are not counted.
C13_DeleteCountsConfirmedOnly ==
    [][last'.op = "delete" =>
          LET coll == last'.collection
              confirmed == {id \in WithSource(coll, last'.ids) :
                              CachedRec(coll, id)["source_id"] \in ConfirmedSources(last'.calls)}
          IN /\ \A id \in WithSource(coll, last'.ids) :
                    CachedRec(coll, id)["source_id"] \in AttemptedSources(last'.calls)
             /\ last'.ret = Cardinality(confirmed)
             /\ \A id \in WithSource(coll, last'.ids) \ confirmed :
                    id \in Keys(CacheOf(source_cache', coll))]_vars

\* C13, amended: with the client available, delete issues a delete_source
\* call for every id of ids that is cached with a source id, whatever the
\* earlier replies were; the returned count is the number of ids whose
\* deletion the service confirmed plus the number of ids cached without a
\* source id, and exactly those ids leave the cache.  With the client
\* unavailable delete attempts nothing, returns 0 and changes nothing.
C13_DeleteCountsRemoved ==
    [][last'.op = "delete" =>
          LET coll == last'.collection
              confirmed == {id \in WithSource(coll, last'.ids) :
                              CachedRec(coll, id)["source_id"] \in ConfirmedSources(last'.calls)}
              removed == confirmed \cup WithoutSource(coll, last'.ids)
          IN IF available
             THEN /\ \A id \in WithSource(coll, last'.ids) :
                        CachedRec(coll, id)["source_id"] \in AttemptedSources(last'.calls)
                  /\ last'.ret = Cardinality(removed)
                  /\ Keys(CacheOf(source_cache', coll)) = Keys(CacheOf(source_cache, coll)) \ removed
             ELSE /\ last'.calls = <<>>
                  /\ last'.ret = 0
                  /\ source_cache' = source_cache /\ ext_sources' = ext_sources]_vars

\* a delete of two cached ids: the service refused the first, confirmed the
\* second, and the count is 1 with the first id still cached
C13_Witness ==
    /\ last.op = "delete"
    /\ Len(last.ids) = 2
    /\ Len(last.calls) = 2
    /\ last.calls[1].reply = "fail"
    /\ last.calls[2].reply = "ok"
    /\ last.ret = 1
    /\ last.ids[1] \in Keys(CacheOf(source_cache, last.collection))
    /\ last.ids[2] \notin Keys(CacheOf(source_cache, last.collection))

---------------------------------------------------------------------------
(* Batches: three records with ids of their own, one batch call per step *)

\* cap on the source ids the service hands out
MaxBatchSources == 4

IdR3 == <<"r", "3">>

BatchData ==
    <<[id |-> IdR1, content |-> <<"a">>],
      [id |-> IdR2, content |-> <<"a">>],
      [id |-> IdR3, content |-> <<"a">>]>>

\* the replies of the service to a batch: all good, or bad for one item
OneBad(good, bad) ==
    {[n \in 1..Len(BatchData) |-> IF n = k THEN bad ELSE good] : k \in 0..Len(BatchData)}

InitBatch ==
    /\ config = BackendConfig
    /\ source_cache = EmptyDict
    /\ available \in BOOLEAN
    /\ ext_sources = EmptyDict
    /\ source_count = 0
    /\ uuid_count = 0
    /\ tasks = <<>>
    /\ last = [op |-> "init"]

BatchInsert ==
    \E replies \in OneBad("ok", "error") :
        \E r \in {batch_insert(State, config, available, CollResources, BatchData, replies)} :
            /\ r.st.sc <= MaxBatchSources
            /\ SetState(r.st)
            /\ last' = [op |-> "batch_insert", collection |-> CollResources, data |-> BatchData,
                        add_replies |-> replies, raised |-> r.raised, ret |-> r.ret,
                        calls |-> r.calls]
            /\ UNCHANGED <<config, available, tasks>>

BatchUpsert ==
    \E delete_replies \in OneBad("ok", "fail"), add_replies \in OneBad("ok", "error") :
        \E r \in {batch_upsert(State, config, available, CollResources, BatchData,
                               delete_replies, add_replies)} :
            /\ r.st.sc <= MaxBatchSources
            /\ SetState(r.st)
            /\ last' = [op |-> "batch_upsert", collection |-> CollResources, data |-> BatchData,
                        add_replies |-> add_replies, raised |-> r.raised, ret |-> r.ret,
                        calls |-> r.calls]
            /\ UNCHANGED <<config, available, tasks>>

BatchDelete ==
    \E replies \in OneBad("ok", "fail") :
        \E r \in {batch_delete(State, available, CollResources, EmptyDict, replies)} :
            /\ SetState(r.st)
            /\ last' = [op |-> "batch_delete", collection |-> CollResources, filter |-> EmptyDict,
                        raised |-> "", ret |-> r.ret, calls |-> r.calls]
            /\ UNCHANGED <<config, available, tasks>>

NextBatch ==
    \/ BatchInsert
    \/ BatchUpsert
    \/ BatchDelete

SpecBatch == InitBatch /\ [][NextBatch]_vars

---------------------------------------------------------------------------
(* Claims about the batch operations (SpecBatch) *)

\* C14: in batch_insert, batch_upsert and batch_delete, a failure on one
\* item does not abort the batch: every other item is still processed and
\* its result is returned to the caller.  For the two inserting batches and
\* an available client: the call returns, and every record whose
\* add_text_source did not fail is cached and has its id in the returned
\* list; for batch_delete: a delete_source call is made for every cached
\* record that has a source id.
C14_BatchIsolatesFailures ==
    [][/\ (available /\ last'.op \in {"batch_insert", "batch_upsert"}) =>
            /\ last'.raised = ""
            /\ \A n \in 1..Len(last'.data) :
                   last'.add_replies[n] # "error" =>
                       /\ last'.data[n]["id"] \in Elements(last'.ret)
                       /\ last'.data[n]["id"] \in Keys(CacheOf(source_cache', last'.collection))
       /\ (available /\ last'.op = "batch_delete") =>
            \A id \in WithSource(last'.collection,
                                 [n \in 1..Len(CachedRecords(last'.collection)) |->
                                     CachedRecords(last'.collection)[n]["id"]]) :
                CachedRec(last'.collection, id)["source_id"] \in AttemptedSources(last'.calls)]_vars

---------------------------------------------------------------------------
(* Claims about a failed update (Spec) *)

\* the replies of the service to the calls fn of an operation
RepliesTo(calls, fn) == {calls[n].reply : n \in {j \in 1..Len(calls) : calls[j].fn = fn}}

\* C15: if, during update(collection, id, data), the deletion of the old
\* record succeeds and the re-insertion fails, then update returns False and
\* afterwards the record is absent from the cache (exists is false) and no
\* source for it remains in the external store.  The deletion succeeds when
\* the service confirms delete_source, the re-insertion fails when
\* add_text_source does.
C15_FailedUpdateLosesRecord ==
    [][( /\ last'.op = "update"
         /\ RepliesTo(last'.calls, "delete_source") = {"ok"}
         /\ RepliesTo(last'.calls, "add_text_source") = {"error"} ) =>
            /\ last'.ret = FALSE
            /\ ~exists(State', last'.collection, last'.id)
            /\ \A s \in DOMAIN ext_sources' :
                   ~(ext_sources'[s].record_id = last'.id
                     /\ ext_sources'[s].notebook_id = get_notebook_id(config, last'.collection).ret)]_vars

---------------------------------------------------------------------------
(* Search: the arguments and the reply of the service are drawn at the     *)
(* start, a step makes the call                                            *)

\* how many sources the service returns at most
MaxResults == 3

QueryText == <<"t", "i", "e", "r", "s">>

\* the k-th source the service knows; the second has a title that is no
\* source name, the third comes without source_id
Source(k) ==
    IF k = 2 THEN [title |-> <<"n", "o", "t", "e", "s">>, snippet |-> <<"b">>, source_id |-> SourceId(k)]
    ELSE IF k = 3 THEN [title |-> DefaultPattern, snippet |-> <<"c">>]
    ELSE [title |-> <<"L", "0", "-", "m", "e", "m", "o", "r", "y", "-", "a", "b", "-", "t", "-", "A">>,
          snippet |-> <<"a">>, source_id |-> SourceId(k)]

\* the result lists of a query: up to MaxResults different sources in any order
SourceLists ==
    {s \in SeqsUpTo({Source(k) : k \in 1..MaxResults}, MaxResults) :
        \A i \in 1..Len(s), j \in 1..Len(s) : i # j => s[i] # s[j]}

QueryReplies == {[kind |-> "fail"], [kind |-> "error"]} \cup {[kind |-> "ok", sources |-> s] : s \in SourceLists}

\* filters with a query text: {"query": text} and
\* {"op": "and", "conds": [{"field": "query", "conds": [text]}]}
QueryFilters ==
    {[query |-> QueryText],
     Node("and", <<Leaf("query", <<QueryText>>)>>)}

\* filters without: none, {}, no "query" entry, an empty text, conds that
\* hold values, a query condition without values
NoQueryFilters ==
    {NoneDict, EmptyDict, [op |-> "and"], [query |-> <<>>],
     Leaf("context_type", <<StrResource>>),
     Node("and", <<Leaf("context_type", <<StrResource>>)>>),
     Node("and", <<Leaf("query", <<>>)>>)}

VectorInputs == {None, <<1, 0>>}
SparseVectorInputs == {NoneDict, [a |-> 1]}

SearchCalls ==
    {[op |-> "call", collection |-> c, query_vector |-> qv, sparse_query_vector |-> sv,
      filter |-> f, limit |-> l, offset |-> o, output_fields |-> of, reply |-> r] :
        c \in {CollResources, CollUnknown}, qv \in VectorInputs, sv \in SparseVectorInputs,
        f \in QueryFilters \cup NoQueryFilters, l \in {1, SearchDefaultLimit}, o \in {0, 1},
        of \in {{}, {"title"}}, r \in QueryReplies}

InitSearch ==
    /\ config = BackendConfig
    /\ source_cache = EmptyDict
    /\ available \in BOOLEAN
    /\ ext_sources = EmptyDict
    /\ source_count = 0
    /\ uuid_count = 0
    /\ tasks = <<>>
    /\ last \in SearchCalls

Search ==
    /\ last.op = "call"
    /\ \E r \in {search(State, config, available, last.collection, last.query_vector,
                        last.sparse_query_vector, last.filter, last.limit, last.offset,
                        last.output_fields, last.reply)} :
        /\ SetState(r.st)
        /\ last' = [last EXCEPT !.op = "search"] @@ [raised |-> r.raised, ret |-> r.ret, calls |-> r.calls]
    /\ UNCHANGED <<config, available, tasks>>

NextSearch ==
    \/ Search

SpecSearch == InitSearch /\ [][NextSearch]_vars

---------------------------------------------------------------------------
(* Claims about search (SpecSearch) *)

\* a filter payload with no query text: absent, empty, or with neither a
\* non-empty "query" value nor a condition on the field "query"
NoQueryText(flt) ==
    \/ flt = NoneDict
    \/ DOMAIN flt = {}
    \/ /\ ~Truthy(Get(flt, "query", <<>>))
       /\ \A n \in 1..Len(Get(flt, "conds", <<>>)) :
              LET item == flt["conds"][n]
              IN "dict" \in DOMAIN item => Get(item["dict"], "field", "") # "query"

\* C18: for a resolvable collection, search whose filter payload yields no
\* query text returns an empty list and issues no call to the external
\* service, and the result of search never depends on the query_vector or
\* sparse_query_vector arguments: the call made with any other vectors, from
\* the same state and with the same reply, returns and calls the same.
C18_SearchNeedsQueryText ==
    [][last'.op = "search" =>
         /\ (~get_notebook_id(config, last'.collection).raised /\ NoQueryText(last'.filter)) =>
                /\ last'.raised = ""
                /\ last'.ret = <<>>
                /\ last'.calls = <<>>
         /\ \A qv \in VectorInputs, sv \in SparseVectorInputs :
                \E r \in {search(State, config, available, last'.collection, qv, sv,
                                 last'.filter, last'.limit, last'.offset,
                                 last'.output_fields, last'.reply)} :
                    /\ r.raised = last'.raised
                    /\ r.ret = last'.ret
                    /\ r.calls = last'.calls]_vars

\* a search with a query vector but no query text, on a mapped collection
\* with the client available, for which the service had three sources
C18_Witness ==
    /\ last.op = "search"
    /\ available
    /\ last.collection = CollResources
    /\ last.filter = [op |-> "and"]
    /\ last.query_vector # None
    /\ last.reply.kind = "ok" /\ Len(last.reply.sources) = MaxResults
    /\ last.ret = <<>>
    /\ last.calls = <<>>

\* the 0-based position in the result list of the service of the source a
\* returned record was made of: the source with the record's id, or the one
\* source without source_id
RankOf(sources, rec) ==
    (CHOOSE k \in 1..Len(sources) :
        IF "source_id" \in DOMAIN sources[k] THEN sources[k]["source_id"] = rec["id"]
        ELSE \A j \in 1..Len(sources) : "source_id" \in DOMAIN sources[j] => sources[j]["source_id"] # rec["id"]) - 1

\* C19: search returns results in the same relative order as the external
\* query returned them, and the result that stood at 0-based rank position
\* k in the external result list carries score 1.0 - 0.1 * k (10 - k
\* tenths), so scores are strictly descending along the returned list.
C19_SearchKeepsOrder ==
    (last.op = "search" /\ last.raised = "") =>
        \A n \in 1..Len(last.ret) :
            /\ last.ret[n]["_score"] = 10 - RankOf(last.reply.sources, last.ret[n])
            /\ \A m \in 1..(n - 1) :
                   /\ RankOf(last.reply.sources, last.ret[m]) < RankOf(last.reply.sources, last.ret[n])
                   /\ last.ret[m]["_score"] > last.ret[n]["_score"]

\* a search with offset 1 returned the second and third source of the
\* service with the scores 0.9 and 0.8
C19_Witness ==
    /\ last.op = "search"
    /\ last.raised = ""
    /\ last.offset = 1
    /\ Len(last.ret) = 2
    /\ last.ret[1]["_score"] = 9
    /\ last.ret[2]["_score"] = 8
    /\ RankOf(last.reply.sources, last.ret[1]) = 1
    /\ RankOf(last.reply.sources, last.ret[2]) = 2

---------------------------------------------------------------------------
(* Every operation of the interface, on a mapped and on an unmapped       *)
(* collection, with and without a fallback notebook: one call per step    *)

\* cap on the source ids the service hands out
MaxOpsSources == 1

OpsCollections == {CollResources, CollUnknown}

OpsData == [id |-> IdR1, content |-> <<"a">>]

\* replies to delete_source and add_text_source: both good, or one of them bad
OpsReplyPairs == {<<"ok", "ok">>, <<"fail", "ok">>, <<"ok", "error">>}

\* a search without query text, one whose query fails, one that is answered
OpsSearches == {<<NoneDict, [kind |-> "fail"]>>, <<[query |-> QueryText], [kind |-> "fail"]>>, <<[query |-> QueryText], [kind |-> "ok", sources |-> <<Source(1)>>]>>}

InitOps ==
    /\ config \in {BackendConfig, [BackendConfig EXCEPT !.default_notebook_id = NbDefault]}
    /\ source_cache = EmptyDict
    /\ available \in BOOLEAN
    /\ ext_sources = EmptyDict
    /\ source_count = 0
    /\ uuid_count = 0
    /\ tasks = <<>>
    /\ last = [op |-> "init"]

\* what a call that touches neither cache nor service leaves alone
ReadOnly == UNCHANGED <<config, source_cache, available, ext_sources, source_count, uuid_count, tasks>>

CallInsert ==
    \E c \in OpsCollections, reply \in {"ok", "error"} :
        \E r \in {insert(State, config, available, c, OpsData, reply)} :
            /\ r.st.sc <= MaxOpsSources
            /\ SetState(r.st)
            /\ last' = [op |-> "insert", collection |-> c, raised |-> r.raised, ret |-> r.ret,
                        calls |-> r.calls]
            /\ UNCHANGED <<config, available, tasks>>

CallUpdate ==
    \E c \in OpsCollections, replies \in OpsReplyPairs :
        \E r \in {update(State, config, available, c, IdR1, [content |-> <<"a">>], replies[1], replies[2])} :
            /\ r.st.sc <= MaxOpsSources
            /\ SetState(r.st)
            /\ last' = [op |-> "update", collection |-> c, raised |-> "", ret |-> r.ret,
                        calls |-> r.calls]
            /\ UNCHANGED <<config, available, tasks>>

CallUpsert ==
    \E c \in OpsCollections, replies \in OpsReplyPairs :
        \E r \in {upsert(State, config, available, c, OpsData, replies[1], replies[2])} :
            /\ r.st.sc <= MaxOpsSources
            /\ SetState(r.st)
            /\ last' = [op |-> "upsert", collection |-> c, raised |-> r.raised, ret |-> r.ret,
                        calls |-> r.calls]
            /\ UNCHANGED <<config, available, tasks>>

CallDelete ==
    \E c \in OpsCollections, reply \in DeleteReplies :
        \E r \in {delete(State, available, c, <<IdR1>>, <<reply>>)} :
            /\ SetState(r.st)
            /\ last' = [op |-> "delete", collection |-> c, raised |-> "", ret |-> r.ret,
                        calls |-> r.calls]
            /\ UNCHANGED <<config, available, tasks>>

CallGet ==
    \E c \in OpsCollections :
        /\ last' = [op |-> "get", collection |-> c, raised |-> "",
                    ret |-> get(State, c, <<IdR1>>), calls |-> <<>>]
        /\ ReadOnly

CallExists ==
    \E c \in OpsCollections :
        /\ last' = [op |-> "exists", collection |-> c, raised |-> "",
                    ret |-> exists(State, c, IdR1), calls |-> <<>>]
        /\ ReadOnly

CallFilter ==
    \E c \in OpsCollections :
        /\ last' = [op |-> "filter", collection |-> c, raised |-> "",
                    ret |-> filter(State, c, EmptyDict, DefaultLimit, 0, {}), calls |-> <<>>]
        /\ ReadOnly

CallScroll ==
    \E c \in OpsCollections, cursor \in {None, <<"1">>} :
        \E r \in {scroll(State, c, NoneDict, ScrollDefaultLimit, cursor, {})} :
            /\ SetState(r.st)
            /\ last' = [op |-> "scroll", collection |-> c, raised |-> r.raised, ret |-> r.ret,
                        calls |-> r.calls]
            /\ UNCHANGED <<config, available, tasks>>

CallCount ==
    \E c \in OpsCollections :
        \E r \in {count(State, c, NoneDict)} :
            /\ SetState(r.st)
            /\ last' = [op |-> "count", collection |-> c, raised |-> r.raised, ret |-> r.ret,
                        calls |-> r.calls]
            /\ UNCHANGED <<config, available, tasks>>

CallSearch ==
    \E c \in OpsCollections, call \in OpsSearches :
        \E r \in {search(State, config, available, c, None, NoneDict, call[1], SearchDefaultLimit, 0, {}, call[2])} :
            /\ SetState(r.st)
            /\ last' = [op |-> "search", collection |-> c, raised |-> r.raised, ret |-> r.ret,
                        calls |-> r.calls]
            /\ UNCHANGED <<config, available, tasks>>

CallClear ==
    \E c \in OpsCollections, reply \in DeleteReplies :
        \E r \in {clear(State, available, c, <<reply>>)} :
            /\ SetState(r.st)
            /\ last' = [op |-> "clear", collection |-> c, raised |-> r.raised, ret |-> r.ret,
                        calls |-> r.calls]
            /\ UNCHANGED <<config, available, tasks>>

CallCreateCollection ==
    \E c \in OpsCollections, reply \in CreateReplies :
        \E r \in {create_collection(config, available, c, reply)} :
            /\ config' = r.cfg
            /\ last' = [op |-> "create_collection", collection |-> c, raised |-> r.raised,
                        ret |-> r.ret, calls |-> r.calls]
            /\ UNCHANGED <<source_cache, available, ext_sources, source_count, uuid_count, tasks>>

CallDropCollection ==
    \E c \in OpsCollections, reply \in DropReplies :
        \E r \in {drop_collection(State, config, available, c, reply)} :
            /\ SetState(r.st)
            /\ config' = r.cfg
            /\ last' = [op |-> "drop_collection", collection |-> c, raised |-> r.raised,
                        ret |-> r.ret, calls |-> r.calls]
            /\ UNCHANGED <<available, tasks>>

CallCollectionExists ==
    \E c \in OpsCollections, reply \in GetNotebookReplies :
        \E r \in {collection_exists(config, c, reply)} :
            /\ last' = [op |-> "collection_exists", collection |-> c, raised |-> r.raised,
                        ret |-> r.ret, calls |-> r.calls]
            /\ ReadOnly

NextOps ==
    \/ CallInsert
    \/ CallUpdate
    \/ CallUpsert
    \/ CallDelete
    \/ CallGet
    \/ CallExists
    \/ CallFilter
    \/ CallScroll
    \/ CallCount
    \/ CallSearch
    \/ CallClear
    \/ CallCreateCollection
    \/ CallDropCollection
    \/ CallCollectionExists

SpecOps == InitOps /\ [][NextOps]_vars

\* the operations that answer from the cache, between inserts and deletes
NextReads ==
    \/ CallInsert
    \/ CallDelete
    \/ CallGet
    \/ CallExists
    \/ CallFilter
    \/ CallScroll
    \/ CallCount

SpecReads == InitOps /\ [][NextReads]_vars

---------------------------------------------------------------------------
(* Claims on failures and on the operations that only read the cache *)

\* the collection resolves to no notebook: not in the mapping, no fallback
Unresolved(cfg, collection) == get_notebook_id(cfg, collection).raised

\* False, an empty list, an empty page or zero, by the type of the result
NegativeOf(op, ret) ==
    IF op \in {"update", "clear", "create_collection", "drop_collection", "collection_exists", "exists"} THEN ret = FALSE
    ELSE IF op \in {"delete", "count"} THEN ret = 0
    ELSE IF op = "scroll" THEN ret.records = <<>>
    ELSE ret = <<>>

NonInsertOps == {"search", "update", "delete", "get", "exists", "filter", "count", "clear", "create_collection", "drop_collection", "collection_exists"}

\* the operations of NonInsertOps that resolve the collection or need the
\* client
ServiceOps == {"search", "update", "delete", "clear", "drop_collection"}

\* C16: search, update, delete, get, exists, filter, count, clear,
\* create_collection, drop_collection and collection_exists never propagate
\* an exception to the caller; when the collection resolves to no notebook
\* or the client is unavailable, search, update, delete, clear and
\* drop_collection return False, an empty list or zero.
C16_OnlyInsertRaises ==
    [][(last'.op \in NonInsertOps)
       => /\ last'.raised = ""
          /\ (last'.op \in ServiceOps /\ (Unresolved(config, last'.collection) \/ ~available))
             => NegativeOf(last'.op, last'.ret)]_vars

RecordOps == {"insert", "update", "upsert", "delete", "get", "search", "filter", "scroll", "count", "clear", "drop_collection"}

\* C17: insert, update, upsert, delete, get, search, filter, scroll, count,
\* clear and drop_collection, called with a collection that is not in the
\* mapping while no fallback notebook is configured, fail: the call raises
\* (CollectionNotFoundError, or RuntimeError when the client is unavailable
\* too) or returns False, an empty list, an empty page or zero; it makes no
\* call to the service and leaves the cache and the mapping as they were.
C17_UnresolvedCollectionFails ==
    [][(last'.op \in RecordOps /\ Unresolved(config, last'.collection))
       => /\ last'.raised # "" \/ NegativeOf(last'.op, last'.ret)
          /\ last'.calls = <<>>
          /\ source_cache' = source_cache
          /\ config' = config]_vars

CacheOps == {"filter", "scroll", "count", "get", "exists"}

\* C20: filter, scroll, count, get and exists make no call to the service
\* and leave the cache, the configuration with its collection mapping and
\* the sources of the service as they were, whether or not the client is
\* available.
C20_CacheOpsTouchNothing ==
    [][(last'.op \in CacheOps)
       => /\ last'.calls = <<>>
          /\ source_cache' = source_cache
          /\ config' = config
          /\ ext_sources' = ext_sources]_vars

\* a count that found the one cached record, whose source the service holds
C20_Witness ==
    /\ last.op = "count"
    /\ last.ret = 1
    /\ Len(CacheOf(source_cache, last.collection)) = 1
    /\ ext_sources # EmptyDict

---------------------------------------------------------------------------
(* Claims about the condition tree (SpecFilter) *)

\* the boolean value of a condition tree on a record, as a reader of the
\* tree expects it: a leaf holds when the record's field is one of the
\* listed values, "and" is the conjunction and "or" the disjunction of the
\* children, the empty tree holds
RECURSIVE TreeHolds(_, _)
TreeHolds(record, tree) ==
    IF DOMAIN tree = {} THEN TRUE
    ELSE IF "field" \in DOMAIN tree
    THEN /\ tree["field"] \in DOMAIN record
         /\ \E n \in 1..Len(tree["conds"]) : tree["conds"][n]["value"] = record[tree["field"]]
    ELSE IF tree["op"] = "and"
    THEN \A n \in 1..Len(tree["conds"]) : TreeHolds(record, tree["conds"][n]["dict"])
    ELSE \E n \in 1..Len(tree["conds"]) : TreeHolds(record, tree["conds"][n]["dict"])

\* C23: _matches_filter(record, tree) is the boolean value of the condition
\* tree (a leaf {field f, conds [v1..vn]} true exactly when record[f] is one
\* of v1..vn, "and" the conjunction, "or" the disjunction of the children),
\* so that filter returns, up to its limit, exactly the cached records on
\* which the tree holds, in cache order.
C23_FilterEvaluatesTree ==
    (last.op = "filter") =>
        /\ \A n \in 1..Len(CachedRecords(last.collection)) :
               _matches_filter(CachedRecords(last.collection)[n], last.filter)
                   = TreeHolds(CachedRecords(last.collection)[n], last.filter)
        /\ last.ret = Slice(SelectSeq(CachedRecords(last.collection),
                                      LAMBDA r : TreeHolds(r, last.filter)),
                            0, last.limit)

---------------------------------------------------------------------------
(* Claims about drop_collection (SpecOps), the pages of search (SpecSearch) *)
(* and the cached tier (Spec)                                               *)

\* C24: drop_collection(name) deletes a notebook of the service only when
\* name is a key of the collection mapping; for a name that is not mapped it
\* returns False and deletes nothing, so that with a fallback notebook
\* configured the fallback notebook is never deleted by dropping an unmapped
\* name.
C24_DropOnlyMappedNames ==
    [][(last'.op = "drop_collection" /\ last'.collection \notin DOMAIN config.notebook_mapping)
       => /\ last'.ret = FALSE
          /\ \A n \in 1..Len(last'.calls) : last'.calls[n].fn # "delete_notebook"
          /\ ext_sources' = ext_sources]_vars

\* the smaller of two numbers
Least(a, b) == IF a < b THEN a ELSE b

\* C27: search with a query text, limit L and offset O returns the results
\* of the service at the 0-based positions O .. O+L-1 of its result list,
\* fewer only if the list is shorter, so that the pages at the offsets 0, L,
\* 2L, ... enumerate the results of the service without gaps or repeats.
C27_SearchPages ==
    (/\ last.op = "search"
     /\ last.raised = ""
     /\ Len(last.calls) = 1
     /\ last.reply.kind = "ok")
    => /\ Len(last.ret) = Least(last.limit, IF Len(last.reply.sources) > last.offset
                                             THEN Len(last.reply.sources) - last.offset
                                             ELSE 0)
       /\ \A n \in 1..Len(last.ret) :
              RankOf(last.reply.sources, last.ret[n]) = last.offset + n - 1

\* the content insert reads from a record: content, else text, else abstract
ContentOf(rec) ==
    Or(Or(Get(rec, "content", None), Get(rec, "text", None)), Get(rec, "abstract", <<>>))

\* the tier of the tiering rule for a record's content
RuleTier(rec) == TierFor(config, IF Truthy(ContentOf(rec)) THEN WordCount(ContentOf(rec)) ELSE 0)

\* C30: every cached record that was inserted or updated with caller data
\* naming neither "tier" nor "source_name" has, as its cached tier and as
\* the tier prefix of its cached source_name, the tier the tiering rule
\* gives to its current content, also after update has replaced the content
\* with a text of another tier.  (No call of this specification names
\* "tier" or "source_name".)
C30_CachedTierIsCurrent ==
    \A c \in DOMAIN source_cache : \A n \in 1..Len(source_cache[c]) :
        /\ source_cache[c][n].rec["tier"] = RuleTier(source_cache[c][n].rec)
        /\ Take(source_cache[c][n].rec["source_name"], 2) = RuleTier(source_cache[c][n].rec)

---------------------------------------------------------------------------
(* The operations that write records: insert, update, upsert, delete and   *)
(* clear, on a mapped and on an unmapped collection                        *)

\* cap on the source ids the service hands out to insert
MaxRecSources == 2

RecData == {OpsData, [id |-> IdR2, content |-> ThreeWords]}

RecInsert ==
    \E c \in OpsCollections, data \in RecData, reply \in AddReplies :
        \E r \in {insert(State, config, available, c, data, reply)} :
            /\ r.st.sc <= MaxRecSources
            /\ SetState(r.st)
            /\ last' = [op |-> "insert", collection |-> c, data |-> data, raised |-> r.raised,
                        ret |-> r.ret, calls |-> r.calls]
            /\ UNCHANGED <<config, available, tasks>>

\* the replies of the service to n deletions: all confirmed, or all but one
DeleteRepliesFor(n) == {[i \in 1..n |-> IF i = k THEN "fail" ELSE "ok"] : k \in 0..n}

RecDelete ==
    \E c \in OpsCollections, ids \in {<<IdR1>>, <<IdR2, IdR1>>} :
        \E replies \in DeleteRepliesFor(Len(ids)) :
            \E r \in {delete(State, available, c, ids, replies)} :
                /\ SetState(r.st)
                /\ last' = [op |-> "delete", collection |-> c, ids |-> ids, raised |-> "",
                            ret |-> r.ret, calls |-> r.calls]
                /\ UNCHANGED <<config, available, tasks>>

\* clear: one reply of the service for each cached record
RecClear ==
    \E c \in OpsCollections :
        \E replies \in DeleteRepliesFor(Len(CacheOf(source_cache, c))) :
            \E r \in {clear(State, available, c, replies)} :
                /\ SetState(r.st)
                /\ last' = [op |-> "clear", collection |-> c, raised |-> r.raised,
                            ret |-> r.ret, calls |-> r.calls]
                /\ UNCHANGED <<config, available, tasks>>

NextRecords ==
    \/ RecInsert
    \/ CallUpdate
    \/ CallUpsert
    \/ RecDelete
    \/ RecClear

SpecRecords == InitOps /\ [][NextRecords]_vars

---------------------------------------------------------------------------
(* Claims about the writing operations (SpecRecords) *)

\* the cached records, of any collection, whose source_id is s
ReferencesTo(s) ==
    {<<c, n>> \in UNION {{c} \X (1..Len(source_cache[c])) : c \in DOMAIN source_cache} :
        Get(source_cache[c][n].rec, "source_id", None) = s}

\* C25: after any sequence of insert, update, upsert, delete and clear,
\* every source the adapter added to the service and has not deleted is the
\* source_id of exactly one cached record, so that no source is out of the
\* reach of delete and clear; also after an insert with an id that is
\* already cached, an update whose delete_source failed and a clear some of
\* whose deletions failed.
C25_NoOrphanSource ==
    \A s \in DOMAIN ext_sources : Cardinality(ReferencesTo(s)) = 1

\* C26: when upsert(collection, data) returns an id r without raising, r is
\* cached afterwards (exists is true) and get(collection, [r]) returns a
\* record with the fields of data, on the insert path and on the update
\* path, also when the re-insertion of the update path fails.  (upsert is
\* called with OpsData.)
C26_UpsertLeavesRecord ==
    [][(last'.op = "upsert" /\ last'.raised = "")
       => \E st \in {[cache |-> source_cache']} :
              /\ exists(st, last'.collection, last'.ret)
              /\ Len(get(st, last'.collection, <<last'.ret>>)) = 1
              /\ \A k \in DOMAIN OpsData :
                     /\ k \in DOMAIN get(st, last'.collection, <<last'.ret>>)[1]
                     /\ get(st, last'.collection, <<last'.ret>>)[1][k] = OpsData[k]]_vars

\* the replies add_text_source got in a call
AddRepliesOf(calls) == RepliesTo(calls, "add_text_source")

\* C29: the cache changes only after a successful external call.  An insert
\* that fails (client unavailable, collection resolving to no notebook,
\* add_text_source failing) raises and leaves the cache as it was before the
\* call; an insert changes the cache only when add_text_source reported
\* success, with or without a source id.
C29_InsertFailureKeepsCache ==
    [][(last'.op = "insert")
       => /\ (~available \/ Unresolved(config, last'.collection) \/ "error" \in AddRepliesOf(last'.calls))
                 => last'.raised # ""
          /\ last'.raised # "" => source_cache' = source_cache
          /\ source_cache' # source_cache
                 => /\ last'.raised = ""
                    /\ AddRepliesOf(last'.calls) \subseteq {"ok", "no_id"}
                    /\ AddRepliesOf(last'.calls) # {}]_vars

\* an insert of r2 failed in add_text_source while r1 was cached, and only
\* r1 is cached
C29_Witness ==
    /\ last.op = "insert"
    /\ last.raised = "RuntimeError"
    /\ last.data["id"] = IdR2
    /\ AddRepliesOf(last.calls) = {"error"}
    /\ Keys(CacheOf(source_cache, last.collection)) = {IdR1}

---------------------------------------------------------------------------
(* The service at its best: the client is available and every external    *)
(* call succeeds, add_text_source with a source id                         *)

InitSucceeding ==
    /\ config \in {BackendConfig, [BackendConfig EXCEPT !.default_notebook_id = NbDefault]}
    /\ source_cache = EmptyDict
    /\ available = TRUE
    /\ ext_sources = EmptyDict
    /\ source_count = 0
    /\ uuid_count = 0
    /\ tasks = <<>>
    /\ last = [op |-> "init"]

OkInsert ==
    \E c \in OpsCollections, data \in RecData :
        \E r \in {insert(State, config, available, c, data, "ok")} :
            /\ r.st.sc <= MaxRecSources
            /\ SetState(r.st)
            /\ last' = [op |-> "insert", collection |-> c, data |-> data, raised |-> r.raised,
                        ret |-> r.ret, calls |-> r.calls]
            /\ UNCHANGED <<config, available, tasks>>

OkUpdate ==
    \E c \in OpsCollections, id \in {IdR1, IdR2}, data \in {[content |-> <<"a">>], [title |-> <<"t">>]} :
        \E r \in {update(State, config, available, c, id, data, "ok", "ok")} :
            /\ r.st.sc <= MaxRecSources
            /\ SetState(r.st)
            /\ last' = [op |-> "update", collection |-> c, id |-> id, data |-> data,
                        raised |-> "", ret |-> r.ret, calls |-> r.calls]
            /\ UNCHANGED <<config, available, tasks>>

OkUpsert ==
    \E c \in OpsCollections, data \in RecData :
        \E r \in {upsert(State, config, available, c, data, "ok", "ok")} :
            /\ r.st.sc <= MaxRecSources
            /\ SetState(r.st)
            /\ last' = [op |-> "upsert", collection |-> c, data |-> data, raised |-> r.raised,
                        ret |-> r.ret, calls |-> r.calls]
            /\ UNCHANGED <<config, available, tasks>>

OkDelete ==
    \E c \in OpsCollections, ids \in {<<IdR1>>, <<IdR2, IdR1>>} :
        \E r \in {delete(State, available, c, ids, [n \in 1..Len(ids) |-> "ok"])} :
            /\ SetState(r.st)
            /\ last' = [op |-> "delete", collection |-> c, ids |-> ids, raised |-> "",
                        ret |-> r.ret, calls |-> r.calls]
            /\ UNCHANGED <<config, available, tasks>>

NextSucceeding ==
    \/ OkInsert
    \/ OkUpdate
    \/ OkUpsert
    \/ OkDelete

SpecSucceeding == InitSucceeding /\ [][NextSucceeding]_vars

\* C22: after any sequence of insert, update, upsert and delete in which
\* every external call succeeds and add_text_source returns a source id,
\* the source_id of every cached record is the id of a source the service
\* holds; after a successful update it is the id the re-insertion returned
\* and not the id of the deleted source.
C22_CachedSourceExists ==
    \A c \in DOMAIN source_cache : \A n \in 1..Len(source_cache[c]) :
        /\ "source_id" \in DOMAIN source_cache[c][n].rec
        /\ source_cache[c][n].rec["source_id"] \in DOMAIN ext_sources

---------------------------------------------------------------------------
(* Scrolling: a caller walks a filled cache page by page, passing each     *)
(* returned cursor to the next call until the cursor is None               *)

\* how many records are cached at most, and the largest page size
MaxScrollRecords == 5
MaxScrollLimit == 3

\* the k-th record inserted: every second one is a memory
ScrollData(k) == IF k % 2 = 0 THEN [content |-> <<"a">>, context_type |-> StrMemory] ELSE [content |-> <<"a">>]

\* the state after n successful inserts into CollResources
RECURSIVE Filled(_)
Filled(n) ==
    IF n = 0 THEN [cache |-> EmptyDict, ext |-> EmptyDict, sc |-> 0, uc |-> 0]
    ELSE insert(Filled(n - 1), BackendConfig, TRUE, CollResources, ScrollData(n), "ok").st

ScrollFilters == {NoneDict, Leaf("context_type", <<StrMemory>>)}

InitScroll ==
    /\ config = BackendConfig
    /\ available = TRUE
    /\ \E st \in {Filled(n) : n \in 0..MaxScrollRecords} :
        /\ source_cache = st.cache
        /\ ext_sources = st.ext
        /\ source_count = st.sc
        /\ uuid_count = st.uc
    /\ tasks = <<>>
    /\ last \in {[op |-> "start", collection |-> CollResources, filter |-> f, limit |-> l,
                  cursor |-> None, pages |-> <<>>, full |-> TRUE, calls |-> 0] :
                    f \in ScrollFilters, l \in 0..MaxScrollLimit}

\* the next call of the caller's loop: the first, or one with the cursor of
\* the call before; full tells whether the page had limit records, calls is
\* the number of calls made so far, modulo 2
ScrollPage ==
    /\ last.op = "start" \/ last.cursor # None
    /\ \E r \in {scroll(State, last.collection, last.filter, last.limit, last.cursor, {})} :
        /\ r.raised = ""
        /\ SetState(r.st)
        /\ last' = [last EXCEPT !.op = "scroll",
                                !.cursor = r.ret.next_cursor,
                                !.pages = last.pages \o r.ret.records,
                                !.full = (Len(r.ret.records) = last.limit),
                                !.calls = (last.calls + 1) % 2]
    /\ UNCHANGED <<config, available, tasks>>

NextScroll ==
    \/ ScrollPage

SpecScroll == InitScroll /\ [][NextScroll]_vars

\* the caller goes on calling while it holds a cursor
SpecScrollFair == SpecScroll /\ WF_vars(NextScroll)

\* the traversal has ended
ScrollDone == last.op = "scroll" /\ last.cursor = None

\* how often record r occurs in the concatenated pages
Occurrences(pages, r) == Cardinality({n \in 1..Len(pages) : pages[n] = r})

\* what holds of the pages gathered so far: a cursor came back only with a
\* full page, no record came twice, and at the end every cached record on
\* which the filter holds came once
ScrollPagesRight ==
    /\ (last.op = "scroll" /\ last.cursor # None) => last.full
    /\ \A n \in 1..Len(last.pages) : Occurrences(last.pages, last.pages[n]) = 1
    /\ ScrollDone =>
           \A n \in 1..Len(CachedRecords(last.collection)) :
               TreeHolds(CachedRecords(last.collection)[n], OrEmpty(last.filter))
                   => Occurrences(last.pages, CachedRecords(last.collection)[n]) = 1

\* C28: a traversal that starts with cursor None and passes each returned
\* cursor to the next scroll call, the cache staying as it is, ends with a
\* None cursor after finitely many calls; the pages together hold every
\* cached record matching the filter exactly once, and a cursor is returned
\* only with a full page; for every limit >= 0 and every cache size.
C28_ScrollTraversalEnds ==
    /\ []ScrollPagesRight
    /\ <>ScrollDone

---------------------------------------------------------------------------
(* Two callers update the same record at the same time.  update awaits     *)
(* get, delete and insert (lines 511, 516, 517); a step is one caller      *)
(* running to its next await.  Callers on one event loop never yield at    *)
(* these awaits, since none of the awaited coroutines suspends, and run    *)
(* one after the other; callers on different threads interleave.  The      *)
(* steps below allow both.                                                 *)

Callers == {"A", "B"}

\* what each caller passes as data
RaceData == [A |-> [content |-> ThreeWords], B |-> [title |-> <<"t">>]]

\* updated_data that leaves the source_id of the existing record behind
MergedRecord_without_source_id(existing, data, id) ==
    Merge(Merge(Without(existing, "source_id"), data), [id |-> id])

\* update, line 515: {**existing[0], **data, "id": id}
MergedRecord(existing, data, id) == Merge(Merge(existing, data), [id |-> id])

\* r1 is cached with its source; both callers have called update and are
\* about to await get
InitRace ==
    /\ config = BackendConfig
    /\ available = TRUE
    /\ \E st \in {insert([cache |-> EmptyDict, ext |-> EmptyDict, sc |-> 0, uc |-> 0],
                         BackendConfig, TRUE, CollResources, OpsData, "ok").st} :
        /\ source_cache = st.cache
        /\ ext_sources = st.ext
        /\ source_count = st.sc
        /\ uuid_count = st.uc
    /\ tasks = [p \in Callers |-> [pc |-> "get", collection |-> CollResources, id |-> IdR1,
                                   data |-> RaceData[p], updated_data |-> EmptyDict,
                                   calls |-> <<>>, ret |-> None]]
    /\ last = [op |-> "init"]

\* lines 511-515: existing = await self.get(...); return False, or merge
UpdateGet(p) ==
    /\ tasks[p].pc = "get"
    /\ \E existing \in {get(State, tasks[p].collection, <<tasks[p].id>>)} :
        tasks' = IF existing = <<>>
                 THEN [tasks EXCEPT ![p].pc = "done", ![p].ret = FALSE]
                 ELSE [tasks EXCEPT ![p].pc = "delete",
                                    ![p].updated_data = MergedRecord(existing[1], tasks[p].data, tasks[p].id)]
    /\ last' = [op |-> "update", caller |-> p, await |-> "get"]
    /\ UNCHANGED <<config, source_cache, available, ext_sources, source_count, uuid_count>>

\* line 516: await self.delete(collection, [id]), the count is dropped
UpdateDelete(p) ==
    /\ tasks[p].pc = "delete"
    /\ \E reply \in DeleteReplies :
        \E r \in {delete(State, available, tasks[p].collection, <<tasks[p].id>>, <<reply>>)} :
            /\ SetState(r.st)
            /\ tasks' = [tasks EXCEPT ![p].pc = "insert", ![p].calls = tasks[p].calls \o r.calls]
    /\ last' = [op |-> "update", caller |-> p, await |-> "delete"]
    /\ UNCHANGED <<config, available>>

\* lines 517-522: await self.insert(collection, updated_data); True, or
\* False when insert raised
UpdateInsert(p) ==
    /\ tasks[p].pc = "insert"
    /\ \E reply \in AddReplies :
        \E r \in {insert(State, config, available, tasks[p].collection, tasks[p].updated_data, reply)} :
            /\ SetState(r.st)
            /\ tasks' = [tasks EXCEPT ![p].pc = "done", ![p].ret = (r.raised = ""),
                                      ![p].calls = tasks[p].calls \o r.calls]
    /\ last' = [op |-> "update", caller |-> p, await |-> "insert"]
    /\ UNCHANGED <<config, available>>

NextRace ==
    \/ \E p \in Callers : UpdateGet(p)
    \/ \E p \in Callers : UpdateDelete(p)
    \/ \E p \in Callers : UpdateInsert(p)

SpecRace == InitRace /\ [][NextRace]_vars

\* the sources of the service that no cached record refers to
OrphanSources == {s \in DOMAIN ext_sources : ReferencesTo(s) = {}}

\* the cached records whose source_id names no source of the service
DanglingRecords ==
    {<<c, n>> \in UNION {{c} \X (1..Len(source_cache[c])) : c \in DOMAIN source_cache} :
        /\ Truthy(Get(source_cache[c][n].rec, "source_id", None))
        /\ source_cache[c][n].rec["source_id"] \notin DOMAIN ext_sources}

---------------------------------------------------------------------------
(* The collection operations alone: create_collection, drop_collection and *)
(* collection_exists on a mapped and on an unmapped name                   *)

NextCollections ==
    \/ CallCreateCollection
    \/ CallDropCollection
    \/ CallCollectionExists

SpecCollections == InitOps /\ [][NextCollections]_vars

\* the ids the service hands out for a notebook it created
CreatedIds == {reply.id : reply \in {k \in CreateReplies : k.kind = "ok"}}

\* C31: create_collection on a name that is already a key of the mapping
\* returns False, calls nothing and leaves the configuration as it was; it
\* returns True only after one create_notebook call that the service answered
\* with an id, and then the mapping has gained exactly the entry name -> that
\* id, every other entry and every other setting is unchanged, and
\* get_notebook_id resolves the name to the new id and not to the fallback;
\* whenever it does not return True the configuration is unchanged.  It never
\* raises.
C31_CreateCollectionFrame ==
    [][last'.op = "create_collection" =>
          LET name == last'.collection
              old == config.notebook_mapping
              new == config'.notebook_mapping IN
          /\ last'.raised = ""
          /\ name \in DOMAIN old =>
                 /\ last'.ret = FALSE
                 /\ last'.calls = <<>>
                 /\ config' = config
          /\ last'.ret = TRUE =>
                 /\ Len(last'.calls) = 1
                 /\ last'.calls[1].fn = "create_notebook"
                 /\ last'.calls[1].reply = "ok"
                 /\ name \notin DOMAIN old
                 /\ DOMAIN new = DOMAIN old \cup {name}
                 /\ \A k \in DOMAIN old : new[k] = old[k]
                 /\ new[name] \in CreatedIds
                 /\ config' = [config EXCEPT !.notebook_mapping = new]
                 /\ ~get_notebook_id(config', name).raised
                 /\ get_notebook_id(config', name).ret = new[name]
                 /\ get_notebook_id(config', name).ret # config'.default_notebook_id
          /\ last'.ret # TRUE => config' = config]_vars

\* C31: with a fallback notebook configured, create_collection on an unmapped
\* name returned True and the name is now mapped to the new notebook beside
\* the entry that was there before
C31_Witness ==
    /\ last.op = "create_collection"
    /\ last.ret = TRUE
    /\ last.collection = CollUnknown
    /\ config.default_notebook_id = NbDefault
    /\ CollResources \in DOMAIN config.notebook_mapping
    /\ config.notebook_mapping[CollUnknown] = Nb2
    /\ get_notebook_id(config, CollUnknown).ret = Nb2

---------------------------------------------------------------------------
(* _matches_filter on its own (SpecMatch): one record and one filter node, *)
(* the node's operator known, unknown or absent                            *)

\* the longest conds list of a node
MaxConds == 2

MatchRecords ==
    {[id |-> IdR1, content |-> <<"a">>],
     [id |-> IdR1, content |-> <<"a">>, context_type |-> StrMemory],
     [id |-> IdR1, content |-> <<"a">>, context_type |-> StrResource]}

\* the operators of a node; "not" and "xor" are none of the code's
MatchOps == {"and", "or", "not", "xor"}

\* what a conds list holds: leaves that name a value, a leaf without
\* values, the empty dict, nested nodes and a bare value
MatchItems ==
    {[dict |-> Leaf("context_type", <<StrMemory>>)],
     [dict |-> [field |-> "context_type", conds |-> <<>>]],
     [dict |-> EmptyDict],
     [dict |-> Node("or", <<Leaf("context_type", <<StrMemory>>), Leaf("context_type", <<StrResource>>)>>)],
     [dict |-> Node("not", <<Leaf("context_type", <<StrMemory>>)>>)],
     [value |-> StrMemory]}

MatchConds == UNION {[1..n -> MatchItems] : n \in 0..MaxConds}

\* nodes with an operator, nodes without the "op" key and nodes without
\* the "conds" key
MatchNodes ==
    {[op |-> op, conds |-> conds] : op \in MatchOps, conds \in MatchConds}
        \cup {[conds |-> conds] : conds \in MatchConds}
        \cup {[op |-> op] : op \in MatchOps}

InitMatch ==
    /\ config = BackendConfig
    /\ IdleBackend
    /\ \E record \in MatchRecords, node \in MatchNodes :
           last = [op |-> "input", record |-> record, filter |-> node]

\* _matches_filter(record, filter) is evaluated
Match ==
    /\ last.op = "input"
    /\ last' = [op |-> "_matches_filter", record |-> last.record, filter |-> last.filter,
                ret |-> _matches_filter(last.record, last.filter)]
    /\ UNCHANGED <<config, source_cache, available, ext_sources, source_count, uuid_count, tasks>>

NextMatch == Match

SpecMatch == InitMatch /\ [][NextMatch]_vars

\* the same node with operator "and"
WithAnd(node) == [k \in DOMAIN node \cup {"op"} |-> IF k = "op" THEN "and" ELSE node[k]]

\* the dicts among the items of a node's conds list
SubConditions(node) ==
    LET conds == Get(node, "conds", <<>>) IN
    {conds[n]["dict"] : n \in {j \in 1..Len(conds) : "dict" \in DOMAIN conds[j]}}

\* C32: for a node whose operator is neither "and" nor "or", or is absent,
\* _matches_filter returns what it returns for the same node with operator
\* "and", which is the conjunction of what it returns for the node's
\* sub-conditions; a node without sub-conditions is true.
C32_UnknownOperatorIsConjunction ==
    (last.op = "_matches_filter") =>
        /\ Get(last.filter, "op", "absent") \notin {"and", "or"} =>
               /\ last.ret = _matches_filter(last.record, WithAnd(last.filter))
               /\ last.ret = (\A sub \in SubConditions(last.filter) :
                                  _matches_filter(last.record, sub))
        /\ SubConditions(last.filter) = {} => last.ret = TRUE

\* C32: _matches_filter was evaluated on a node with an operator the code
\* does not know, over a record of context type "resource" and two
\* sub-conditions, one of them a leaf that names "memory" only
C32_Witness ==
    /\ last.op = "_matches_filter"
    /\ last.filter = Node("xor", <<Leaf("context_type", <<StrMemory>>), EmptyDict>>)
    /\ last.record["context_type"] = StrResource
    /\ last.ret = _matches_filter(last.record, Node("and", <<Leaf("context_type", <<StrMemory>>), EmptyDict>>))

====
